---- MODULE Spec2Model ----
(***************************************************************************)
(* Model of bin/configure-tower-projects.py: the reconciliation of a set   *)
(* of Tower projects (organization, members, teams, workspaces,            *)
(* participants, credentials, compute environments) against a remote       *)
(* control plane.  One action of the model is one remote request of the    *)
(* program together with the local code that follows it up to the next     *)
(* request.  Strings the program inspects character by character are       *)
(* sequences of one-character strings.                                     *)
(***************************************************************************)
EXTENDS Integers, Sequences, FiniteSets, TLC

VARIABLES
    use_teams,   \* TowerOrganization.use_teams
    projects,    \* Projects.users_per_project, in insertion order
    remote,      \* the state of the control plane
    nextId,      \* the identifiers the control plane hands out next, per kind
    pc,          \* position of the run
    run,         \* number of the run
    o,           \* TowerOrganization's fields and the locals of populate
    w,           \* the current TowerWorkspace's fields and locals
    log,         \* the requests issued in this run, in order
    initial,     \* the remote state the first run started from
    snap,        \* the remote state and outcome at the end of the previous run
    ref,         \* the remote state an uninterrupted run ended in (recovery scenario)
    main         \* main: its arguments, the environment, the configuration files
                 \* and the Projects and TowerClient objects it builds

vars == <<use_teams, projects, remote, nextId, pc, run, o, w, log, initial, snap, ref, main>>

----------------------------------------------------------------------------
(* Constants of the program *)

None == -1

CE_VERSION == <<"v", "6">>

ORG_NAME == "Sage Bionetworks"

role_mapping ==
    << [user_group |-> "owners", role |-> "owner"],
       [user_group |-> "admins", role |-> "admin"],
       [user_group |-> "maintainers", role |-> "maintain"],
       [user_group |-> "launchers", role |-> "launch"],
       [user_group |-> "viewers", role |-> "view"] >>

launcher_roles == {"owner", "admin", "maintain", "launch"}

----------------------------------------------------------------------------
(* Strings as sequences of characters *)

Letters ==
    {"a","b","c","d","e","f","g","h","i","j","k","l","m","n","o","p","q","r",
     "s","t","u","v","w","x","y","z","A","B","C","D","E","F","G","H","I","J",
     "K","L","M","N","O","P","Q","R","S","T","U","V","W","X","Y","Z"}

Digits == {"0","1","2","3","4","5","6","7","8","9"}

\* str.endswith
EndsWith(s, suffix) ==
    /\ Len(s) >= Len(suffix)
    /\ SubSeq(s, Len(s) - Len(suffix) + 1, Len(s)) = suffix

\* `sub in s` for strings
Contains(s, sub) ==
    \E i \in 1..(Len(s) - Len(sub) + 1) : SubSeq(s, i, i + Len(sub) - 1) = sub

\* s[:-n]
DropLast(s, n) == IF Len(s) <= n THEN <<>> ELSE SubSeq(s, 1, Len(s) - n)

\* get_valid_name, were the space kept
get_valid_name_KeepSpaces(full_name) ==
    [i \in 1..Len(full_name) |->
        IF full_name[i] \in Letters \cup Digits \cup {"_", "-", " "}
        THEN full_name[i] ELSE "-"]

\* get_valid_name, were the underscore replaced as well
get_valid_name_Underscores(full_name) ==
    [i \in 1..Len(full_name) |->
        IF full_name[i] \in Letters \cup Digits \cup {"-"}
        THEN full_name[i] ELSE "-"]

\* re.sub(r"[^A-Za-z0-9_-]", "-", full_name)
get_valid_name(full_name) ==
    [i \in 1..Len(full_name) |->
        IF full_name[i] \in Letters \cup Digits \cup {"_", "-"}
        THEN full_name[i] ELSE "-"]

GroupName(user_group) ==
    CASE user_group = "owners" -> <<"o","w","n","e","r","s">>
      [] user_group = "admins" -> <<"a","d","m","i","n","s">>
      [] user_group = "maintainers" -> <<"m","a","i","n","t","a","i","n","e","r","s">>
      [] user_group = "launchers" -> <<"l","a","u","n","c","h","e","r","s">>
      [] user_group = "viewers" -> <<"v","i","e","w","e","r","s">>

\* populate: the name of the team of a project's user group; the last eight
\* characters of the project name are dropped
TeamName(project_name, user_group) ==
    DropLast(project_name, 8) \o <<"-">> \o GroupName(user_group)

----------------------------------------------------------------------------
(* Users *)

RECURSIVE Flatten(_)
Flatten(ss) == IF ss = <<>> THEN <<>> ELSE Head(ss) \o Flatten(Tail(ss))

\* Users.list_users: every user with group and role, in role_mapping order
list_users(users) ==
    Flatten([g \in 1..Len(role_mapping) |->
        [k \in 1..Len(users[role_mapping[g].user_group]) |->
            [user |-> users[role_mapping[g].user_group][k],
             user_group |-> role_mapping[g].user_group,
             role |-> role_mapping[g].role]]])

\* Users.list_teams: the users grouped by (group, role); a group without
\* users never enters the defaultdict and is not listed
list_teams(users) ==
    LET present == SelectSeq(role_mapping, LAMBDA rm : Len(users[rm.user_group]) > 0)
    IN  [t \in 1..Len(present) |->
            [users |-> users[present[t].user_group],
             user_group |-> present[t].user_group,
             role |-> present[t].role]]

----------------------------------------------------------------------------
(* The configurations and remote states the runs start from *)

Identities == {"u1", "u2", "u3"}

\* The user name the control plane keeps for a member
UserNameOf(email) ==
    CASE email = "u1" -> <<"u", "1">>
      [] email = "u2" -> <<"u", "2">>
      [] email = "u3" -> <<"u", "3">>

MemberIdOf(email) ==
    CASE email = "u1" -> 1
      [] email = "u2" -> 2
      [] email = "u3" -> 3

P_A == <<"a", "-", "p", "r", "o", "j", "e", "c", "t">>

P_B == <<"b", "-", "p", "r", "o", "j", "e", "c", "t">>

\* Users(maintainers=..., viewers=...) as extract_users builds it
MkUsers(maintainers, viewers) ==
    [owners |-> <<>>, admins |-> <<>>, maintainers |-> maintainers,
     launchers |-> <<>>, viewers |-> viewers]

Configs ==
    { << [name |-> P_A, users |-> MkUsers(<<"u1">>, <<"u2">>)] >>,
      << [name |-> P_A, users |-> MkUsers(<<"u1", "u2">>, <<>>)] >>,
      << [name |-> P_A, users |-> MkUsers(<<>>, <<"u1">>)] >>,
      << [name |-> P_A, users |-> MkUsers(<<"u1">>, <<"u1">>)] >>,
      << [name |-> P_A, users |-> MkUsers(<<>>, <<>>)] >>,
      << [name |-> P_A, users |-> MkUsers(<<"u1">>, <<"u2">>)],
         [name |-> P_B, users |-> MkUsers(<<"u2">>, <<>>)] >> }

\* Names of the compute environments of a stack
CompEnvName(stack_name, kind, version) ==
    stack_name \o <<"-">> \o kind \o <<"-">> \o version

Spot == <<"s", "p", "o", "t">>

OnDemand == <<"o", "n", "d", "e", "m", "a", "n", "d">>

MaxPriorEnvs == 2

\* Compute environments workspace 1 may hold before the first run
PriorEnvPool ==
    { [wsId |-> 1, id |-> 1, name |-> CompEnvName(P_A, Spot, <<"v", "5">>),
       platform |-> "aws-batch", credentialsId |-> 1, status |-> "AVAILABLE", activeJobs |-> FALSE],
      [wsId |-> 1, id |-> 2, name |-> CompEnvName(P_A, OnDemand, <<"v", "5">>),
       platform |-> "aws-batch", credentialsId |-> 1, status |-> "AVAILABLE", activeJobs |-> FALSE],
      [wsId |-> 1, id |-> 3, name |-> CompEnvName(P_A, Spot, <<"v", "4">>),
       platform |-> "aws-batch", credentialsId |-> 1, status |-> "AVAILABLE", activeJobs |-> TRUE],
      [wsId |-> 1, id |-> 4, name |-> CompEnvName(P_A, Spot, CE_VERSION),
       platform |-> "aws-batch", credentialsId |-> 1, status |-> "AVAILABLE", activeJobs |-> TRUE],
      [wsId |-> 1, id |-> 5, name |-> CompEnvName(P_A, Spot, CE_VERSION),
       platform |-> "aws-batch", credentialsId |-> 1, status |-> "ERRORED", activeJobs |-> FALSE],
      [wsId |-> 1, id |-> 6, name |-> CompEnvName(P_A, OnDemand, CE_VERSION),
       platform |-> "aws-batch", credentialsId |-> 1, status |-> "CREATING", activeJobs |-> FALSE] }

MkMember(email) ==
    [memberId |-> MemberIdOf(email), email |-> email, userName |-> UserNameOf(email)]

EmptyRemote ==
    [organizations |-> {}, members |-> {}, teams |-> {}, teamMembers |-> {},
     workspaces |-> {}, participants |-> {}, credentials |-> {}, computeEnvs |-> {},
     unlisted |-> {}]

\* The field unlisted holds the records a listing of the control plane leaves
\* out although they exist (<<"member", id>>, <<"participant", id>>): none, as
\* long as the control plane is consistent

\* A remote state left by earlier activity: the organization, workspace 1 of
\* project P_A with `envs`; and either (team mode) team 1 of P_A's maintainers,
\* holding `people` and taking part in the workspace, or `people` as direct
\* participants of the workspace; the roles are viewer roles
PriorRemote(teamMode, envs, people) ==
    [organizations |-> {[orgId |-> 1, fullName |-> ORG_NAME]},
     members |-> {MkMember(e) : e \in people},
     teams |->
        IF teamMode
        THEN {[teamId |-> 1,
               name |-> TeamName(P_A, "maintainers")]}
        ELSE {},
     teamMembers |-> IF teamMode THEN {<<1, MemberIdOf(e)>> : e \in people} ELSE {},
     workspaces |-> {[id |-> 1, name |-> get_valid_name(P_A), primary |-> None]},
     participants |->
        IF teamMode
        THEN {[wsId |-> 1, participantId |-> 1, memberId |-> None, teamId |-> 1,
               role |-> "view"]}
        ELSE {[wsId |-> 1, participantId |-> MemberIdOf(e), memberId |-> MemberIdOf(e),
               teamId |-> None, role |-> "view"] : e \in people},
     credentials |->
        IF envs = {} THEN {}
        ELSE {[wsId |-> 1, id |-> 1, name |-> P_A, provider |-> "aws", deleted |-> None]},
     computeEnvs |-> envs,
     unlisted |-> {}]

PriorRemotes(teamMode) ==
    { PriorRemote(teamMode, envs, people) :
        envs \in {E \in SUBSET PriorEnvPool : Cardinality(E) <= MaxPriorEnvs},
        people \in {{}, {"u1"}, {"u3"}, {"u1", "u2", "u3"}} }

FreshIds ==
    [org |-> 1, member |-> 1, team |-> 1, ws |-> 1, participant |-> 1, cred |-> 1, env |-> 1]

PriorIds ==
    [org |-> 2, member |-> 4, team |-> 2, ws |-> 2, participant |-> 4, cred |-> 2, env |-> 7]

----------------------------------------------------------------------------
(* main, Projects and TowerClient: what a run is started with *)

\* Python's None where the other values are strings
NoneString == "<None>"

\* bool(x) for a string or None
Truthy(x) == x # NoneString /\ x # ""

\* x or y
Or(x, y) == IF Truthy(x) THEN x ELSE y

\* TowerClient.__init__: the token and the URL are taken from the arguments,
\* then from the environment; os.environ.get gives None for a variable that
\* is not set and raises nothing; the only check is that of the URL
TowerClient(tower_token, tower_api_url, environ) ==
    LET token == Or(Or(tower_token, environ.NXF_TOWER_TOKEN), environ.TOWER_ACCESS_TOKEN)
        url == Or(Or(tower_api_url, environ.NXF_TOWER_API_URL), environ.TOWER_API_ENDPOINT)
    IN  IF url = NoneString
        THEN [raised |-> "KeyError", tower_token |-> token, tower_api_base_url |-> NoneString]
        ELSE [raised |-> "", tower_token |-> token, tower_api_base_url |-> url]

\* "arn:aws:sts::"
ARN_PREFIX == <<"a","r","n",":","a","w","s",":","s","t","s",":",":">>

\* ":assumed-role/"
ASSUMED_ROLE == <<":","a","s","s","u","m","e","d","-","r","o","l","e","/">>

\* The positions of character c in s
Positions(s, c) == {i \in 1..Len(s) : s[i] = c}

Min(S) == CHOOSE x \in S : \A y \in S : x <= y

Max(S) == CHOOSE x \in S : \A y \in S : x >= y

\* Every character of s is in the class
AllIn(s, class) == \A i \in 1..Len(s) : s[i] \in class

\* s[from:], from counted from 1
From(s, from) == SubSeq(s, from, Len(s))

\* StartsWith
StartsWith(s, prefix) == Len(s) >= Len(prefix) /\ SubSeq(s, 1, Len(prefix)) = prefix

\* [A-Za-z0-9._%+-]+@[A-Za-z0-9.-]+\.[A-Z|a-z]{2,} matches all of s: no class
\* holds "@", so s has one "@"; the last class, [A-Z|a-z], holds no ".", so the
\* "." of the pattern is the last one of s
SessionNameMatches(s) ==
    /\ Cardinality(Positions(s, "@")) = 1
    /\ LET at == Min(Positions(s, "@"))
           local == SubSeq(s, 1, at - 1)
           rest == From(s, at + 1)
       IN  /\ local # <<>> /\ AllIn(local, Letters \cup Digits \cup {".", "_", "%", "+", "-"})
           /\ Positions(rest, ".") # {}
           /\ LET dot == Max(Positions(rest, "."))
                  domain == SubSeq(rest, 1, dot - 1)
                  tld == From(rest, dot + 1)
              IN  /\ domain # <<>> /\ AllIn(domain, Letters \cup Digits \cup {".", "-"})
                  /\ Len(tld) >= 2 /\ AllIn(tld, Letters \cup {"|"})

\* role_arn_regex.fullmatch(arn): <<session_name>> for a match, <<>> for none.
\* The account is the digits after the prefix, the role name reaches to the
\* first "/" after ":assumed-role/", the session name is all that follows
role_arn_regex_fullmatch(arn) ==
    IF ~StartsWith(arn, ARN_PREFIX) THEN <<>>
    ELSE LET s1 == From(arn, Len(ARN_PREFIX) + 1)
             nondigits == {i \in 1..Len(s1) : s1[i] \notin Digits}
             n == IF nondigits = {} THEN Len(s1) ELSE Min(nondigits) - 1
             s2 == From(s1, n + 1)
         IN  IF n = 0 \/ ~StartsWith(s2, ASSUMED_ROLE) THEN <<>>
             ELSE LET s3 == From(s2, Len(ASSUMED_ROLE) + 1)
                      slashes == Positions(s3, "/")
                  IN  IF slashes = {} \/ Min(slashes) = 1 THEN <<>>
                      ELSE LET session_name == From(s3, Min(slashes) + 1)
                           IN  IF SessionNameMatches(session_name)
                               THEN <<session_name>> ELSE <<>>

\* The loop of extract_emails over the ARNs that are left, with the emails
\* collected so far; the list is lost when the loop raises
RECURSIVE ExtractLoop(_, _)
ExtractLoop(arns, emails) ==
    IF arns = <<>> THEN [raised |-> "", emails |-> emails]
    ELSE LET match == role_arn_regex_fullmatch(Head(arns))
         IN  IF match # <<>>
             THEN ExtractLoop(Tail(arns), Append(emails, match[1]))
             ELSE [raised |-> "ValueError", emails |-> <<>>]

\* extract_emails, were a malformed ARN passed over
extract_emails_Lenient(arns) ==
    LET good == SelectSeq(arns, LAMBDA arn : role_arn_regex_fullmatch(arn) # <<>>)
    IN  [raised |-> "",
         emails |-> [i \in 1..Len(good) |-> role_arn_regex_fullmatch(good[i])[1]]]

\* Projects.extract_emails
extract_emails(arns) == ExtractLoop(arns, <<>>)

\* is_valid, were the template marker not compared with the constant
is_valid_AnyTemplate(config) ==
    /\ "stack_name" \in DOMAIN config
    /\ "template_path" \in DOMAIN config
    /\ "parameters" \in DOMAIN config
    /\ \/ "S3ReadWriteAccessArns" \in DOMAIN config.parameters
       \/ "S3ReadOnlyAccessArns" \in DOMAIN config.parameters

\* Projects.validate_config: is_valid
is_valid(config) ==
    /\ "stack_name" \in DOMAIN config
    /\ "template_path" \in DOMAIN config
    /\ config.template_path = "tower-project.yaml"
    /\ "parameters" \in DOMAIN config
    /\ \/ "S3ReadWriteAccessArns" \in DOMAIN config.parameters
       \/ "S3ReadOnlyAccessArns" \in DOMAIN config.parameters

\* dict.get(key, [])
GetOrEmpty(d, key) == IF key \in DOMAIN d THEN d[key] ELSE <<>>

\* The email addresses of the identities
Email(u) ==
    CASE u = "u1" -> <<"u","1","@","s",".","i","o">>
      [] u = "u2" -> <<"u","2","@","s",".","i","o">>
      [] u = "u3" -> <<"u","3","@","s",".","i","o">>

\* The identity that has the email address
Identity(email) == CHOOSE u \in Identities : Email(u) = email

\* An assumed-role ARN
Arn(account_id, role_name, session_name) ==
    ARN_PREFIX \o account_id \o ASSUMED_ROLE \o role_name \o <<"/">> \o session_name

ArnOf(u) == Arn(<<"1">>, <<"r">>, Email(u))

\* An ARN without a session name
ARN_NO_SESSION == ARN_PREFIX \o <<"1">> \o ASSUMED_ROLE \o <<"r">>

\* The parsed project files a configuration directory may hold
ConfigMenu ==
    { [stack_name |-> P_A, template_path |-> "tower-project.yaml",
       parameters |-> [S3ReadWriteAccessArns |-> <<ArnOf("u1")>>,
                       S3ReadOnlyAccessArns |-> <<ArnOf("u2")>>]],
      [stack_name |-> P_B, template_path |-> "tower-project.yaml",
       parameters |-> [S3ReadWriteAccessArns |-> <<ArnOf("u2")>>]],
      [stack_name |-> P_A, template_path |-> "tower-project.yaml",
       parameters |-> [S3ReadOnlyAccessArns |-> <<ArnOf("u1")>>]],
      [template_path |-> "tower-project.yaml",
       parameters |-> [S3ReadWriteAccessArns |-> <<ArnOf("u1")>>]],
      [stack_name |-> P_B, template_path |-> "other.yaml",
       parameters |-> [S3ReadWriteAccessArns |-> <<ArnOf("u1")>>]],
      [stack_name |-> P_B, template_path |-> "tower-project.yaml"],
      [stack_name |-> P_B, template_path |-> "tower-project.yaml", parameters |-> <<>>],
      [stack_name |-> P_B, template_path |-> "tower-project.yaml",
       parameters |-> [S3ReadWriteAccessArns |-> <<ArnOf("u1"), ARN_NO_SESSION>>,
                       S3ReadOnlyAccessArns |-> <<ArnOf("u2")>>]] }

MaxConfigs == 2

\* The configuration directories: the files in the order os.walk gives them
Directories ==
    UNION {[1..n -> ConfigMenu] : n \in 0..MaxConfigs}

\* The environments main may be started in
Environs ==
    { [NXF_TOWER_TOKEN |-> "token", TOWER_ACCESS_TOKEN |-> NoneString,
       NXF_TOWER_API_URL |-> "url", TOWER_API_ENDPOINT |-> NoneString],
      [NXF_TOWER_TOKEN |-> "", TOWER_ACCESS_TOKEN |-> "token",
       NXF_TOWER_API_URL |-> NoneString, TOWER_API_ENDPOINT |-> "url"],
      [NXF_TOWER_TOKEN |-> NoneString, TOWER_ACCESS_TOKEN |-> NoneString,
       NXF_TOWER_API_URL |-> "url", TOWER_API_ENDPOINT |-> NoneString],
      [NXF_TOWER_TOKEN |-> "token", TOWER_ACCESS_TOKEN |-> NoneString,
       NXF_TOWER_API_URL |-> NoneString, TOWER_API_ENDPOINT |-> NoneString],
      [NXF_TOWER_TOKEN |-> NoneString, TOWER_ACCESS_TOKEN |-> NoneString,
       NXF_TOWER_API_URL |-> NoneString, TOWER_API_ENDPOINT |-> NoneString] }

\* main after Projects and TowerClient were built from a well-formed
\* directory and a complete environment: the runs of TowerOrganization
MainReady ==
    [dry_run |-> FALSE,
     environ |-> [NXF_TOWER_TOKEN |-> "token", TOWER_ACCESS_TOKEN |-> NoneString,
                  NXF_TOWER_API_URL |-> "url", TOWER_API_ENDPOINT |-> NoneString],
     configs |-> <<>>, ci |-> 0, users_per_project |-> <<>>,
     tower |-> <<[tower_token |-> "token", tower_api_base_url |-> "url"]>>]

----------------------------------------------------------------------------
(* State of a run *)

EmptyDict == [x \in {} |-> None]

\* The fields TowerOrganization.__init__ sets before its first request
OrgFresh ==
    [id |-> None, members |-> EmptyDict,
     teamids_per_project |-> [i \in 1..Len(projects) |-> <<>>],
     pi |-> 0, ti |-> 0, ui |-> 0, team_id |-> None, verified_ids |-> {},
     caller |-> "", username |-> <<>>, pending |-> <<>>]

\* The fields of a TowerWorkspace before its first request
WsFresh ==
    [wi |-> 0, id |-> None, name |-> <<>>, plist |-> <<>>, qi |-> 0,
     participants |-> EmptyDict, identifier |-> None, participant_id |-> None,
     pending |-> <<>>, compute_env_ids |-> [SPOT |-> None, EC2 |-> None],
     model |-> "", credentials_id |-> None]

MaxRuns == 2

\* The start of the first run: a configuration, and a remote state that is
\* empty or left by earlier activity
InitRun(first) ==
    /\ use_teams \in BOOLEAN
    /\ projects \in Configs
    /\ \/ remote = EmptyRemote /\ nextId = FreshIds
       \/ remote \in PriorRemotes(use_teams) /\ nextId = PriorIds
    /\ pc = "org_get"
    /\ run = first
    /\ o = OrgFresh
    /\ w = WsFresh
    /\ log = <<>>
    /\ initial = remote
    /\ snap = [outcome |-> "none", remote |-> remote]
    /\ ref = [set |-> FALSE, remote |-> remote]
    /\ main = MainReady

Init == InitRun(1)

----------------------------------------------------------------------------
(* What the control plane answers *)

USER_PREFIX == <<"U", "s", "e", "r", " ", "'">>

ALREADY_A_MEMBER == <<"a", "l", "r", "e", "a", "d", "y", " ", "a", " ", "m", "e", "m", "b", "e", "r">>

ALREADY_A_MEMBER_SUFFIX == <<" ", "i", "s", " ">> \o ALREADY_A_MEMBER

\* A listing, in the order of the identifiers `key` gives
RECURSIVE Listing(_, _)
Listing(S, key) ==
    IF S = {} THEN <<>>
    ELSE LET first == CHOOSE x \in S : \A y \in S : key[x] <= key[y]
         IN  <<first>> \o Listing(S \ {first}, key)

\* The last of the elements of a listing that match, as the program's loops
\* without a break keep it; <<>> when there is none
LastMatch(hits) == IF hits = <<>> THEN <<>> ELSE <<hits[Len(hits)]>>

\* The first of the elements of a listing that match (a loop that returns)
FirstMatch(hits) == IF hits = <<>> THEN <<>> ELSE <<hits[1]>>

\* "User '<username>' is already a member"
AlreadyMemberMessage(userName) ==
    USER_PREFIX \o userName \o <<"'">> \o ALREADY_A_MEMBER_SUFFIX

\* SplitQuote1, were the message not split
SplitQuote1_Whole(message) == message

\* message.split("'")[1]
SplitQuote1(message) ==
    LET quotes == {i \in 1..Len(message) : message[i] = "'"}
        first == CHOOSE i \in quotes : \A j \in quotes : i <= j
        later == {i \in quotes : i > first}
        second == IF later = {} THEN Len(message) + 1
                  ELSE CHOOSE i \in later : \A j \in later : i <= j
    IN  SubSeq(message, first + 1, second - 1)

MembersListing(S) == Listing(S, [m \in S |-> m.memberId])

TeamsListing(S) == Listing(S, [t \in S |-> t.teamId])

EnvsListing(S) == Listing(S, [e \in S |-> e.id])

ParticipantsListing(S) == Listing(S, [q \in S |-> q.participantId])

----------------------------------------------------------------------------
(* Control: where a run goes after a step *)

Goto(c) == pc' = c.pc /\ o' = c.o /\ w' = c.w

\* TowerOrganization.create_workspaces: the next TowerWorkspace, or the end
BeginWorkspace(oo, wi) ==
    IF wi > Len(projects)
    THEN [pc |-> "done", o |-> oo, w |-> [WsFresh EXCEPT !.wi = wi]]
    ELSE [pc |-> "ws_get", o |-> oo,
          w |-> [WsFresh EXCEPT !.wi = wi, !.name = get_valid_name(projects[wi].name)]]

\* The tier (users, user_group, role) populate is at
Tier(oo) == list_teams(projects[oo.pi].users)[oo.ti]

\* populate: the body of the loop over list_teams starts
BeginTier(oo, t) ==
    [pc |-> IF use_teams THEN "team_get" ELSE "member_put",
     o |-> [oo EXCEPT !.ti = t, !.ui = 1, !.verified_ids = {}, !.caller = "populate"],
     w |-> WsFresh]

\* populate: the loop over the projects; after the last one, the workspaces
RECURSIVE BeginProject(_, _)
BeginProject(oo, i) ==
    IF i > Len(projects) THEN BeginWorkspace(oo, 1)
    ELSE LET o1 == [oo EXCEPT !.pi = i, !.teamids_per_project[i] = <<>>]
         IN  IF list_teams(projects[i].users) = <<>>
             THEN BeginProject(o1, i + 1)
             ELSE BeginTier(o1, 1)

\* NextTier, were the workspaces built as soon as the first project that has
\* users is populated
NextTier_WorkspacesFirst(oo) ==
    IF oo.ti < Len(list_teams(projects[oo.pi].users))
    THEN BeginTier(oo, oo.ti + 1)
    ELSE BeginWorkspace(oo, 1)

\* populate: after the last user of a tier comes the next tier of the project,
\* or the next project
NextTier(oo) ==
    IF oo.ti < Len(list_teams(projects[oo.pi].users))
    THEN BeginTier(oo, oo.ti + 1)
    ELSE BeginProject(oo, oo.pi + 1)

\* populate: after a user of the tier; after the last one the unexpected team
\* members are removed (team mode)
NextUser(oo) ==
    IF oo.ui < Len(Tier(oo).users)
    THEN [pc |-> "member_put", o |-> [oo EXCEPT !.ui = @ + 1, !.caller = "populate"],
          w |-> WsFresh]
    ELSE IF use_teams THEN [pc |-> "team_members_get", o |-> oo, w |-> WsFresh]
         ELSE NextTier(oo)

\* dict[key] = value, keeping the insertion order
DictSet(d, key, value) ==
    IF \E i \in 1..Len(d) : d[i][1] = key
    THEN [i \in 1..Len(d) |-> IF d[i][1] = key THEN <<key, value>> ELSE d[i]]
    ELSE Append(d, <<key, value>>)

----------------------------------------------------------------------------
(* TowerOrganization *)

\* TowerOrganization.create: the organization is looked up by its full name
OrgCreateGet ==
    /\ pc = "org_get"
    /\ log' = Append(log, [op |-> "org_get"])
    /\ LET found == FirstMatch(SelectSeq(Listing(remote.organizations,
                                       [g \in remote.organizations |-> g.orgId]),
                               LAMBDA g : g.fullName = ORG_NAME))
       IN  IF found # <<>>
           THEN Goto(BeginProject([o EXCEPT !.id = found[1].orgId], 1))
           ELSE pc' = "org_post" /\ UNCHANGED <<o, w>>
    /\ UNCHANGED <<use_teams, projects, remote, nextId, run, initial, snap, ref, main>>

\* TowerOrganization.create: the organization is created
OrgCreatePost ==
    /\ pc = "org_post"
    /\ log' = Append(log, [op |-> "org_post"])
    /\ remote' = [remote EXCEPT !.organizations =
                    @ \cup {[orgId |-> nextId.org, fullName |-> ORG_NAME]}]
    /\ nextId' = [nextId EXCEPT !.org = @ + 1]
    /\ Goto(BeginProject([o EXCEPT !.id = nextId.org], 1))
    /\ UNCHANGED <<use_teams, projects, run, initial, snap, ref, main>>

\* AfterAddMember, were the member not put in the cache
AfterAddMember_NoCache(oo, member) ==
    IF use_teams THEN [pc |-> "team_add_post", o |-> oo, w |-> WsFresh]
    ELSE NextUser(oo)

\* add_member returns `member`: to populate, which verifies the identifier and
\* (team mode) adds the member to the team, or to add_member_to_team
AfterAddMember(oo, member) ==
    LET o1 == [oo EXCEPT !.members = (Tier(oo).users[oo.ui] :> member) @@ @]
    IN  IF oo.caller = "populate"
        THEN LET o2 == [o1 EXCEPT !.verified_ids = @ \cup {member.memberId}]
             IN  IF use_teams THEN [pc |-> "team_add_post", o |-> o2, w |-> WsFresh]
                 ELSE NextUser(o2)
        ELSE NextUser(o1)

\* TowerOrganization.add_member: the user is added to the organization; the
\* control plane answers with the new member, or that the user is one already
AddMemberPut ==
    /\ pc = "member_put"
    /\ LET user == Tier(o).users[o.ui]
           existing == {m \in remote.members : m.email = user}
       IN  /\ log' = Append(log, [op |-> "member_put", user |-> user])
           /\ IF existing # {}
              THEN LET message == AlreadyMemberMessage((CHOOSE m \in existing : TRUE).userName)
                   IN  /\ IF Contains(message, ALREADY_A_MEMBER)
                          THEN /\ pc' = "member_search"
                               /\ o' = [o EXCEPT !.username = SplitQuote1(message)]
                          ELSE pc' = "KeyError" /\ o' = o
                       /\ UNCHANGED <<remote, nextId, w>>
              ELSE LET member == [memberId |-> nextId.member, email |-> user,
                                  userName |-> UserNameOf(user)]
                   IN  /\ remote' = [remote EXCEPT !.members = @ \cup {member}]
                       /\ nextId' = [nextId EXCEPT !.member = @ + 1]
                       /\ Goto(AfterAddMember(o, member))
    /\ UNCHANGED <<use_teams, projects, run, initial, snap, ref, main>>

\* SearchFailed, were an empty search passed over
SearchFailed_Continue(oo, ww) == NextUser(oo)

\* add_member's assert: no member has the user name of the message
SearchFailed(oo, ww) == [pc |-> "AssertionError", o |-> oo, w |-> ww]

\* TowerOrganization.add_member: the existing member is searched by user name
AddMemberSearch ==
    /\ pc = "member_search"
    /\ log' = Append(log, [op |-> "member_search", username |-> o.username])
    /\ LET members == MembersListing({m \in remote.members :
                            /\ Contains(m.userName, o.username)
                            /\ <<"member", m.memberId>> \notin remote.unlisted})
           member == LastMatch(SelectSeq(members, LAMBDA m : m.userName = o.username))
       IN  IF member # <<>>
           THEN Goto(AfterAddMember(o, member[1]))
           ELSE Goto(SearchFailed(o, w))
    /\ UNCHANGED <<use_teams, projects, remote, nextId, run, initial, snap, ref, main>>

\* TowerOrganization.create_team: the team is looked up by name
CreateTeamGet ==
    /\ pc = "team_get"
    /\ log' = Append(log, [op |-> "team_get"])
    /\ LET team_name == TeamName(projects[o.pi].name, Tier(o).user_group)
           found == FirstMatch(SelectSeq(TeamsListing(remote.teams), LAMBDA t : t.name = team_name))
       IN  IF found # <<>>
           THEN /\ pc' = "member_put"
                /\ o' = [o EXCEPT !.team_id = found[1].teamId,
                                  !.teamids_per_project[o.pi] =
                                      DictSet(@, found[1].teamId, Tier(o).role)]
           ELSE pc' = "team_post" /\ o' = o
    /\ UNCHANGED <<use_teams, projects, remote, nextId, run, w, initial, snap, ref, main>>

\* TowerOrganization.create_team: the team is created
CreateTeamPost ==
    /\ pc = "team_post"
    /\ log' = Append(log, [op |-> "team_post"])
    /\ LET team_name == TeamName(projects[o.pi].name, Tier(o).user_group)
       IN  remote' = [remote EXCEPT !.teams =
                        @ \cup {[teamId |-> nextId.team, name |-> team_name]}]
    /\ nextId' = [nextId EXCEPT !.team = @ + 1]
    /\ pc' = "member_put"
    /\ o' = [o EXCEPT !.team_id = nextId.team,
                      !.teamids_per_project[o.pi] = DictSet(@, nextId.team, Tier(o).role)]
    /\ UNCHANGED <<use_teams, projects, run, w, initial, snap, ref, main>>

\* TowerOrganization.add_member_to_team: the user is added to the team; when the
\* control plane answers that the member is in the team already, add_member is
\* called again for the member identifier
AddMemberToTeamPost ==
    /\ pc = "team_add_post"
    /\ LET user == Tier(o).users[o.ui]
           member == CHOOSE m \in remote.members : m.email = user
       IN  /\ log' = Append(log, [op |-> "team_add_post", team_id |-> o.team_id,
                                  user |-> user])
           /\ IF <<o.team_id, member.memberId>> \in remote.teamMembers
              THEN /\ pc' = "member_put"
                   /\ o' = [o EXCEPT !.caller = "add_member_to_team"]
                   /\ w' = w
                   /\ remote' = remote
              ELSE /\ remote' = [remote EXCEPT !.teamMembers =
                                    @ \cup {<<o.team_id, member.memberId>>}]
                   /\ Goto(NextUser(o))
    /\ UNCHANGED <<use_teams, projects, nextId, run, initial, snap, ref, main>>

\* UnexpectedFrom without the test against the verified identifiers
UnexpectedFrom_All(ids, verified_ids) == ids

\* populate: the team members still to check; those verified are skipped
UnexpectedFrom(ids, verified_ids) ==
    SelectSeq(ids, LAMBDA id : id \notin verified_ids)

AfterTeamMember(oo, pending) ==
    IF pending = <<>> THEN NextTier([oo EXCEPT !.pending = <<>>])
    ELSE [pc |-> "team_remove_delete", o |-> [oo EXCEPT !.pending = pending], w |-> WsFresh]

\* TowerOrganization.list_team_members, and populate's check of each identifier
\* against the verified ones
ListTeamMembersGet ==
    /\ pc = "team_members_get"
    /\ log' = Append(log, [op |-> "team_members_get", team_id |-> o.team_id])
    /\ LET ids == {tm[2] : tm \in {x \in remote.teamMembers : x[1] = o.team_id}}
           team_member_ids == Listing(ids, [i \in ids |-> i])
       IN  Goto(AfterTeamMember(o, UnexpectedFrom(team_member_ids, o.verified_ids)))
    /\ UNCHANGED <<use_teams, projects, remote, nextId, run, initial, snap, ref, main>>

\* TowerOrganization.remove_member_from_team
RemoveMemberFromTeamDelete ==
    /\ pc = "team_remove_delete"
    /\ log' = Append(log, [op |-> "team_remove_delete", team_id |-> o.team_id,
                           member_id |-> Head(o.pending)])
    /\ remote' = [remote EXCEPT !.teamMembers = @ \ {<<o.team_id, Head(o.pending)>>}]
    /\ Goto(AfterTeamMember(o, Tail(o.pending)))
    /\ UNCHANGED <<use_teams, projects, nextId, run, initial, snap, ref, main>>

----------------------------------------------------------------------------
(* TowerWorkspace *)

\* What TowerWorkspace.__init__ gets as users (direct mode) and teams (team mode)
WsUsers(wi) == IF use_teams THEN <<>> ELSE list_users(projects[wi].users)

WsTeams(oo, wi) == IF use_teams THEN oo.teamids_per_project[wi] ELSE <<>>

\* has_launchers, were the roles of the teams not looked at
has_launchers_UsersOnly(userList, teams) ==
    \E i \in 1..Len(userList) : userList[i].role \in launcher_roles

\* TowerWorkspace.has_launchers
has_launchers(userList, teams) ==
    \/ \E i \in 1..Len(userList) : userList[i].role \in launcher_roles
    \/ \E i \in 1..Len(teams) : teams[i][2] \in launcher_roles

\* bool(x) for an identifier or None
TruthyId(x) == x # None /\ x # 0

\* TowerWorkspace.populate: the add_participant calls it makes, in order
ParticipantCalls(userList, teams) ==
    [i \in 1..Len(userList) |->
        [role |-> userList[i].role, user |-> userList[i].user, team_id |-> None]]
    \o [i \in 1..Len(teams) |->
        [role |-> teams[i][2], user |-> NoneString, team_id |-> teams[i][1]]]

\* The role the control plane gives a participant when it is added
NewParticipantRole == "launch"

NextWorkspace(oo, ww) == BeginWorkspace(oo, ww.wi + 1)

\* TowerWorkspace.__init__ after populate: cleanup_compute_environments
BeginCleanup(oo, ww) == [pc |-> "ce_cleanup_get", o |-> oo, w |-> ww]

\* TowerWorkspace.__init__ after create: populate
BeginPopulate(oo, ww) ==
    LET calls == ParticipantCalls(WsUsers(ww.wi), WsTeams(oo, ww.wi))
        w1 == [ww EXCEPT !.plist = calls, !.qi = 1]
    IN  IF calls = <<>> THEN BeginCleanup(oo, w1)
        ELSE [pc |-> "participant_put", o |-> oo, w |-> w1]

\* TowerWorkspace.create: the workspace is looked up by its name
WsCreateGet ==
    /\ pc = "ws_get"
    /\ LET found == FirstMatch(SelectSeq(Listing(remote.workspaces,
                                       [x \in remote.workspaces |-> x.id]),
                               LAMBDA x : x.name = w.name))
       IN  /\ log' = Append(log, [op |-> "ws_get", wi |-> w.wi,
                                  id |-> IF found # <<>> THEN found[1].id ELSE None])
           /\ IF found # <<>>
              THEN Goto(BeginPopulate(o, [w EXCEPT !.id = found[1].id]))
              ELSE pc' = "ws_post" /\ UNCHANGED <<o, w>>
    /\ UNCHANGED <<use_teams, projects, remote, nextId, run, initial, snap, ref, main>>

\* TowerWorkspace.create: the workspace is created
WsCreatePost ==
    /\ pc = "ws_post"
    /\ log' = Append(log, [op |-> "ws_post", wi |-> w.wi, id |-> nextId.ws])
    /\ remote' = [remote EXCEPT !.workspaces =
                    @ \cup {[id |-> nextId.ws, name |-> w.name, primary |-> None]}]
    /\ nextId' = [nextId EXCEPT !.ws = @ + 1]
    /\ Goto(BeginPopulate(o, [w EXCEPT !.id = nextId.ws]))
    /\ UNCHANGED <<use_teams, projects, run, initial, snap, ref, main>>

\* add_participant: `participant` is resolved; its role is set next
AfterParticipant(ww, identifier, participant) ==
    [ww EXCEPT !.participants = (identifier :> participant) @@ @,
               !.identifier = identifier,
               !.participant_id = participant.participantId]

\* TowerWorkspace.add_participant: the member or the team is added to the
\* workspace; the control plane answers with the new participant, or that it
\* is one already
AddParticipantPut ==
    /\ pc = "participant_put"
    /\ LET call == w.plist[w.qi]
           byUser == Truthy(call.user) /\ ~TruthyId(call.team_id)
           byTeam == ~Truthy(call.user) /\ TruthyId(call.team_id)
       IN  IF ~(byUser \/ byTeam)
           THEN /\ pc' = "ValueError"
                /\ UNCHANGED <<o, w, log, remote, nextId>>
           ELSE IF byUser /\ call.user \notin DOMAIN o.members
           THEN /\ pc' = "KeyError"
                /\ UNCHANGED <<o, w, log, remote, nextId>>
           ELSE LET member_id == IF byUser THEN o.members[call.user].memberId ELSE None
                    team_id == IF byUser THEN None ELSE call.team_id
                    identifier == IF byUser THEN member_id ELSE team_id
                    existing == {q \in remote.participants :
                                    /\ q.wsId = w.id
                                    /\ \/ member_id # None /\ q.memberId = member_id
                                       \/ team_id # None /\ q.teamId = team_id}
                IN  /\ log' = Append(log, [op |-> "participant_put", wi |-> w.wi,
                                           memberId |-> member_id, teamId |-> team_id])
                    /\ IF existing # {}
                       THEN /\ pc' = "participant_lookup"
                            /\ w' = [w EXCEPT !.identifier = identifier]
                            /\ UNCHANGED <<o, remote, nextId>>
                       ELSE LET participant ==
                                    [wsId |-> w.id, participantId |-> nextId.participant,
                                     memberId |-> member_id, teamId |-> team_id,
                                     role |-> NewParticipantRole]
                            IN  /\ remote' = [remote EXCEPT !.participants =
                                                @ \cup {participant}]
                                /\ nextId' = [nextId EXCEPT !.participant = @ + 1]
                                /\ pc' = "participant_role"
                                /\ w' = AfterParticipant(w, identifier, participant)
                                /\ o' = o
    /\ UNCHANGED <<use_teams, projects, run, initial, snap, ref, main>>

\* populate: after an add_participant call returned
NextParticipant(oo, ww) ==
    IF ww.qi < Len(ww.plist)
    THEN [pc |-> "participant_put", o |-> oo, w |-> [ww EXCEPT !.qi = @ + 1]]
    ELSE BeginCleanup(oo, ww)

\* LookupDone, were the role of a participant that is found left as it is
LookupDone_Return(oo, ww, participant) ==
    NextParticipant(oo, AfterParticipant(ww, ww.identifier, participant))

\* add_participant after the lookup found `participant`: it is kept and its
\* role is updated like that of a new participant
LookupDone(oo, ww, participant) ==
    [pc |-> "participant_role", o |-> oo,
     w |-> AfterParticipant(ww, ww.identifier, participant)]

\* TowerWorkspace.add_participant on "Already a participant": the participant is
\* looked up by the member or team identifier
AddParticipantLookup ==
    /\ pc = "participant_lookup"
    /\ log' = Append(log, [op |-> "participant_lookup", wi |-> w.wi])
    /\ LET participants == ParticipantsListing({q \in remote.participants :
                            /\ q.wsId = w.id
                            /\ <<"participant", q.participantId>> \notin remote.unlisted})
           participant == LastMatch(SelectSeq(participants,
                              LAMBDA q : q.memberId = w.identifier \/ q.teamId = w.identifier))
       IN  IF participant # <<>>
           THEN Goto(LookupDone(o, w, participant[1]))
           ELSE pc' = "AssertionError" /\ UNCHANGED <<o, w>>
    /\ UNCHANGED <<use_teams, projects, remote, nextId, run, initial, snap, ref, main>>

\* TowerWorkspace.set_participant_role, and populate's next add_participant
SetParticipantRolePut ==
    /\ pc = "participant_role"
    /\ LET role == w.plist[w.qi].role
       IN  /\ log' = Append(log, [op |-> "participant_role", wi |-> w.wi,
                                  participantId |-> w.participant_id, role |-> role])
           /\ remote' = [remote EXCEPT !.participants =
                {IF q.wsId = w.id /\ q.participantId = w.participant_id
                 THEN [q EXCEPT !.role = role] ELSE q : q \in @}]
    /\ Goto(NextParticipant(o, w))
    /\ UNCHANGED <<use_teams, projects, nextId, run, initial, snap, ref, main>>

\* KeepsCompEnv without the test of the version marker
KeepsCompEnv_AnyVersion(comp_env_name, launchers) == launchers

\* KeepsCompEnv without the test of has_launchers
KeepsCompEnv_NameOnly(comp_env_name, launchers) == EndsWith(comp_env_name, CE_VERSION)

\* cleanup_compute_environments: whether a listed environment is left alone
KeepsCompEnv(comp_env_name, launchers) ==
    EndsWith(comp_env_name, CE_VERSION) /\ launchers

WsHasLaunchers(oo, ww) == has_launchers(WsUsers(ww.wi), WsTeams(oo, ww.wi))

\* AfterCleanup, were create_compute_environment called for every workspace
AfterCleanup_Always(oo, ww) == [pc |-> "ce_list_get", o |-> oo, w |-> ww]

\* TowerWorkspace.__init__ after cleanup: create_compute_environment, when the
\* workspace has launchers; then the next workspace
AfterCleanup(oo, ww) ==
    IF WsHasLaunchers(oo, ww) THEN [pc |-> "ce_list_get", o |-> oo, w |-> ww]
    ELSE NextWorkspace(oo, ww)

\* cleanup_compute_environments: the loop over the listed environments, up to
\* the next one that is deleted
CleanupLoop(oo, ww, comp_envs) ==
    LET todo == SelectSeq(comp_envs,
                    LAMBDA e : ~KeepsCompEnv(e.name, WsHasLaunchers(oo, ww)))
    IN  IF todo = <<>> THEN AfterCleanup(oo, [ww EXCEPT !.pending = <<>>])
        ELSE [pc |-> "ce_delete", o |-> oo, w |-> [ww EXCEPT !.pending = todo]]

\* cleanup_compute_environments: the compute environments are listed
CleanupGet ==
    /\ pc = "ce_cleanup_get"
    /\ LET comp_envs == EnvsListing({e \in remote.computeEnvs : e.wsId = w.id})
           listed == [i \in 1..Len(comp_envs) |->
                        [id |-> comp_envs[i].id, name |-> comp_envs[i].name]]
       IN  /\ log' = Append(log, [op |-> "ce_cleanup_get", wi |-> w.wi, listed |-> listed])
           /\ Goto(CleanupLoop(o, w, listed))
    /\ UNCHANGED <<use_teams, projects, remote, nextId, run, initial, snap, ref, main>>

\* AfterDelete, were an answer about active jobs treated as a failure
AfterDelete_Raise(oo, ww, blocked) ==
    IF blocked THEN [pc |-> "AssertionError", o |-> oo, w |-> ww]
    ELSE CleanupLoop(oo, ww, Tail(ww.pending))

\* cleanup_compute_environments after the answer to a DELETE: an answer about
\* active jobs is printed, and the loop goes on in either case
AfterDelete(oo, ww, blocked) == CleanupLoop(oo, ww, Tail(ww.pending))

\* cleanup_compute_environments: one compute environment is deleted, unless the
\* control plane answers that it has active jobs
CleanupDelete ==
    /\ pc = "ce_delete"
    /\ LET comp_env == Head(w.pending)
           blocked == \E e \in remote.computeEnvs : e.id = comp_env.id /\ e.activeJobs
       IN  /\ log' = Append(log, [op |-> "ce_delete", wi |-> w.wi, id |-> comp_env.id,
                                  name |-> comp_env.name, blocked |-> blocked])
           /\ remote' = IF blocked THEN remote
                        ELSE [remote EXCEPT !.computeEnvs =
                                {e \in @ : e.id # comp_env.id}]
           /\ Goto(AfterDelete(o, w, blocked))
    /\ UNCHANGED <<use_teams, projects, nextId, run, initial, snap, ref, main>>

----------------------------------------------------------------------------
(* Compute environments *)

\* create_compute_environment: the names of the two compute environments
comp_env_name(stack_name, model) ==
    IF model = "SPOT" THEN CompEnvName(stack_name, Spot, CE_VERSION)
    ELSE CompEnvName(stack_name, OnDemand, CE_VERSION)

\* IsLive without the status CREATING
IsLive_AvailableOnly(comp_env) ==
    comp_env.platform = "aws-batch" /\ comp_env.status = "AVAILABLE"

\* IsLive without the test of the platform
IsLive_AnyPlatform(comp_env) ==
    comp_env.status = "AVAILABLE" \/ comp_env.status = "CREATING"

\* create_compute_environment: an existing environment counts when it is an
\* aws-batch one that is available or being created
IsLive(comp_env) ==
    /\ comp_env.platform = "aws-batch"
    /\ comp_env.status = "AVAILABLE" \/ comp_env.status = "CREATING"

\* ScanCompEnvs, were the listing not looked at
ScanCompEnvs_Blind(comp_envs, stack_name, model) == None

\* create_compute_environment: the identifier the scan of the listing leaves
\* for `model` (the last match), None when there is none
ScanCompEnvs(comp_envs, stack_name, model) ==
    LET hit == LastMatch(SelectSeq(comp_envs,
                   LAMBDA e : IsLive(e) /\ e.name = comp_env_name(stack_name, model)
                              /\ (model = "EC2" => e.name # comp_env_name(stack_name, "SPOT"))))
    IN  IF hit = <<>> THEN None ELSE hit[1].id

\* create_compute_environment: the environment created next, if any is missing
CreateMissing(oo, ww) ==
    IF ww.compute_env_ids.SPOT = None
    THEN [pc |-> "credentials_get", o |-> oo, w |-> [ww EXCEPT !.model = "SPOT"]]
    ELSE IF ww.compute_env_ids.EC2 = None
         THEN [pc |-> "credentials_get", o |-> oo, w |-> [ww EXCEPT !.model = "EC2"]]
         ELSE NextWorkspace(oo, ww)

\* create_compute_environment: the compute environments are listed and scanned
CreateCompEnvGet ==
    /\ pc = "ce_list_get"
    /\ LET comp_envs == EnvsListing({e \in remote.computeEnvs : e.wsId = w.id})
           stack_name == projects[w.wi].name
           compute_env_ids == [SPOT |-> ScanCompEnvs(comp_envs, stack_name, "SPOT"),
                               EC2 |-> ScanCompEnvs(comp_envs, stack_name, "EC2")]
       IN  /\ log' = Append(log, [op |-> "ce_list_get", wi |-> w.wi,
                                  listed |-> comp_envs, ids |-> compute_env_ids])
           /\ Goto(CreateMissing(o, [w EXCEPT !.compute_env_ids = compute_env_ids]))
    /\ UNCHANGED <<use_teams, projects, remote, nextId, run, initial, snap, ref, main>>

\* CredentialsOk, were the entry not checked
CredentialsOk_Any(cred) == TRUE

\* create_credentials: the two asserts on the entry that was found
CredentialsOk(cred) == cred.provider = "aws" /\ cred.deleted = None

\* CredentialsNamed, were no listed entry recognised
CredentialsNamed_None(creds, stack_name) == <<>>

\* create_credentials: the first listed credentials entry with the name of the stack
CredentialsNamed(creds, stack_name) ==
    FirstMatch(SelectSeq(Listing(creds, [c \in creds |-> c.id]),
                         LAMBDA c : c.name = stack_name))

\* create_credentials: the credentials of the workspace are listed; the entry
\* named after the stack is checked and used
CreateCredentialsGet ==
    /\ pc = "credentials_get"
    /\ log' = Append(log, [op |-> "credentials_get", wi |-> w.wi])
    /\ LET creds == {c \in remote.credentials : c.wsId = w.id}
           found == CredentialsNamed(creds, projects[w.wi].name)
       IN  IF found = <<>> THEN pc' = "credentials_post" /\ w' = w
           ELSE IF CredentialsOk(found[1])
                THEN pc' = "ce_post" /\ w' = [w EXCEPT !.credentials_id = found[1].id]
                ELSE pc' = "AssertionError" /\ w' = w
    /\ UNCHANGED <<use_teams, projects, remote, nextId, run, o, initial, snap, ref, main>>

\* create_credentials: the credentials entry is created
CreateCredentialsPost ==
    /\ pc = "credentials_post"
    /\ log' = Append(log, [op |-> "credentials_post", wi |-> w.wi])
    /\ remote' = [remote EXCEPT !.credentials =
                    @ \cup {[wsId |-> w.id, id |-> nextId.cred, name |-> projects[w.wi].name,
                             provider |-> "aws", deleted |-> None]}]
    /\ nextId' = [nextId EXCEPT !.cred = @ + 1]
    /\ pc' = "ce_post"
    /\ w' = [w EXCEPT !.credentials_id = nextId.cred]
    /\ UNCHANGED <<use_teams, projects, run, o, initial, snap, ref, main>>

\* AfterCreate, were every new compute environment made primary
AfterCreate_Both(oo, ww) == [pc |-> "ce_primary", o |-> oo, w |-> ww]

\* create_compute_environment after a POST: set_primary_compute_environment
\* for the new spot environment; nothing more for the on-demand one
AfterCreate(oo, ww) ==
    IF ww.model = "SPOT" THEN [pc |-> "ce_primary", o |-> oo, w |-> ww]
    ELSE NextWorkspace(oo, ww)

\* create_compute_environment: the compute environment of w.model is created
CreateCompEnvPost ==
    /\ pc = "ce_post"
    /\ LET name == comp_env_name(projects[w.wi].name, w.model)
           w1 == [w EXCEPT !.compute_env_ids[w.model] = nextId.env]
       IN  /\ log' = Append(log, [op |-> "ce_post", wi |-> w.wi, id |-> nextId.env,
                                  name |-> name])
           /\ remote' = [remote EXCEPT !.computeEnvs =
                    @ \cup {[wsId |-> w.id, id |-> nextId.env, name |-> name,
                             platform |-> "aws-batch", credentialsId |-> w.credentials_id,
                             status |-> "CREATING", activeJobs |-> FALSE]}]
           /\ nextId' = [nextId EXCEPT !.env = @ + 1]
           /\ Goto(AfterCreate(o, w1))
    /\ UNCHANGED <<use_teams, projects, run, initial, snap, ref, main>>

\* set_primary_compute_environment, for the spot environment just created
SetPrimaryPost ==
    /\ pc = "ce_primary"
    /\ log' = Append(log, [op |-> "ce_primary", wi |-> w.wi, id |-> w.compute_env_ids.SPOT])
    /\ remote' = [remote EXCEPT !.workspaces =
            {IF x.id = w.id THEN [x EXCEPT !.primary = w.compute_env_ids.SPOT] ELSE x :
                x \in @}]
    /\ Goto(CreateMissing(o, w))
    /\ UNCHANGED <<use_teams, projects, nextId, run, initial, snap, ref, main>>

----------------------------------------------------------------------------
(* Runs *)

Faults == {"AssertionError", "KeyError", "ValueError"}

Ended == {"done", "aborted"} \cup Faults

\* main is run again with the same configuration
Rerun ==
    /\ pc \in Ended
    /\ run >= 1
    /\ run < MaxRuns
    /\ run' = run + 1
    /\ snap' = [outcome |-> pc, remote |-> remote]
    /\ pc' = "org_get"
    /\ o' = OrgFresh
    /\ w' = WsFresh
    /\ log' = <<>>
    /\ UNCHANGED <<use_teams, projects, remote, nextId, initial, ref, main>>

Step ==
    \/ OrgCreateGet
    \/ OrgCreatePost
    \/ CreateTeamGet
    \/ CreateTeamPost
    \/ AddMemberPut
    \/ AddMemberSearch
    \/ AddMemberToTeamPost
    \/ ListTeamMembersGet
    \/ RemoveMemberFromTeamDelete
    \/ WsCreateGet
    \/ WsCreatePost
    \/ AddParticipantPut
    \/ AddParticipantLookup
    \/ SetParticipantRolePut
    \/ CleanupGet
    \/ CleanupDelete
    \/ CreateCompEnvGet
    \/ CreateCredentialsGet
    \/ CreateCredentialsPost
    \/ CreateCompEnvPost
    \/ SetPrimaryPost

Next == Step \/ Rerun

Spec == Init /\ [][Next]_vars

----------------------------------------------------------------------------
(* main: the configuration directory is loaded by Projects, then either the  *)
(* discovered files are reported (dry run) or TowerClient is built and       *)
(* TowerOrganization runs.  main passes neither a token nor a URL to         *)
(* TowerClient and does not pass use_teams.                                  *)

\* users_per_project[stack_name] = users
ProjectsSet(d, stack_name, users) ==
    IF \E i \in 1..Len(d) : d[i].name = stack_name
    THEN [i \in 1..Len(d) |->
            IF d[i].name = stack_name THEN [name |-> stack_name, users |-> users] ELSE d[i]]
    ELSE Append(d, [name |-> stack_name, users |-> users])

InitMain ==
    /\ use_teams = FALSE
    /\ projects = <<>>
    /\ \/ remote = EmptyRemote /\ nextId = FreshIds
       \/ /\ remote = PriorRemote(FALSE, {e \in PriorEnvPool : e.id = 1}, {"u1"})
          /\ nextId = PriorIds
    /\ pc = "load"
    /\ run = 1
    /\ o = OrgFresh
    /\ w = WsFresh
    /\ log = <<>>
    /\ initial = remote
    /\ snap = [outcome |-> "none", remote |-> remote]
    /\ ref = [set |-> FALSE, remote |-> remote]
    /\ \E d \in BOOLEAN, e \in Environs, c \in Directories :
          main = [dry_run |-> d, environ |-> e, configs |-> c, ci |-> 0,
                  users_per_project |-> <<>>, tower |-> <<>>]

\* Projects.extract_users: one turn of the loop over load_projects; the next
\* file is validated, then its two access lists are extracted
LoadProject ==
    /\ pc = "load"
    /\ main.ci < Len(main.configs)
    /\ LET config == main.configs[main.ci + 1]
       IN  IF ~is_valid(config)
           THEN /\ pc' = "InvalidTowerProject"
                /\ main' = [main EXCEPT !.ci = @ + 1]
           ELSE LET maintainers ==
                        extract_emails(GetOrEmpty(config.parameters, "S3ReadWriteAccessArns"))
                    viewers ==
                        extract_emails(GetOrEmpty(config.parameters, "S3ReadOnlyAccessArns"))
                IN  IF maintainers.raised # "" \/ viewers.raised # ""
                    THEN /\ pc' = "ValueError"
                         /\ main' = [main EXCEPT !.ci = @ + 1]
                    ELSE /\ pc' = "load"
                         /\ main' = [main EXCEPT !.ci = @ + 1,
                                !.users_per_project =
                                    ProjectsSet(@, config.stack_name,
                                        MkUsers(
                                            [i \in 1..Len(maintainers.emails) |->
                                                Identity(maintainers.emails[i])],
                                            [i \in 1..Len(viewers.emails) |->
                                                Identity(viewers.emails[i])]))]
    /\ UNCHANGED <<use_teams, projects, remote, nextId, run, o, w, log, initial, snap, ref>>

\* AfterLoad, were the dry-run flag not looked at
AfterLoad_Always(mm) == "tower_client"

\* main after Projects(...) returned
AfterLoad(mm) == IF mm.dry_run THEN "dry_run" ELSE "tower_client"

\* Projects.__init__ returns after the last file; in a dry run main prints the
\* paths of the files and returns
ProjectsLoaded ==
    /\ pc = "load"
    /\ main.ci = Len(main.configs)
    /\ projects' = main.users_per_project
    /\ pc' = AfterLoad(main)
    /\ UNCHANGED <<use_teams, remote, nextId, run, o, w, log, initial, snap, ref, main>>

\* main: TowerClient(debug_mode=args.debug), then TowerOrganization(tower, projects)
\* up to its first request
NewTowerClient ==
    /\ pc = "tower_client"
    /\ LET tower == TowerClient(NoneString, NoneString, main.environ)
       IN  IF tower.raised # ""
           THEN pc' = tower.raised /\ UNCHANGED <<o, main>>
           ELSE /\ main' = [main EXCEPT !.tower =
                                <<[tower_token |-> tower.tower_token,
                                   tower_api_base_url |-> tower.tower_api_base_url]>>]
                /\ o' = OrgFresh
                /\ pc' = "org_get"
    /\ UNCHANGED <<use_teams, projects, remote, nextId, run, w, log, initial, snap, ref>>

\* The requests of a run without teams
MainStep ==
    \/ OrgCreateGet
    \/ OrgCreatePost
    \/ AddMemberPut
    \/ AddMemberSearch
    \/ WsCreateGet
    \/ WsCreatePost
    \/ AddParticipantPut
    \/ AddParticipantLookup
    \/ SetParticipantRolePut
    \/ CleanupGet
    \/ CleanupDelete
    \/ CreateCompEnvGet
    \/ CreateCredentialsGet
    \/ CreateCredentialsPost
    \/ CreateCompEnvPost
    \/ SetPrimaryPost

NextMain == LoadProject \/ ProjectsLoaded \/ NewTowerClient \/ MainStep

SpecMain == InitMain /\ [][NextMain]_vars

----------------------------------------------------------------------------
(* Recovery scenario: an uninterrupted run is compared with an aborted run    *)
(* followed by a complete one, both from the same remote state.  Run 0 is the *)
(* uninterrupted run; its result is kept in ref and the remote state is put   *)
(* back to the initial one before run 1.                                      *)

\* The run dies with an exception of the transport after one of its requests
Abort ==
    /\ pc \notin Ended
    /\ run = 1
    /\ ref.set
    /\ log # <<>>
    /\ pc' = "aborted"
    /\ UNCHANGED <<use_teams, projects, remote, nextId, run, o, w, log, initial, snap, ref, main>>

\* The scenario is started over from the initial remote state
Restore ==
    /\ pc = "done"
    /\ run = 0
    /\ ref' = [set |-> TRUE, remote |-> remote]
    /\ remote' = initial
    /\ nextId' = IF initial = EmptyRemote THEN FreshIds ELSE PriorIds
    /\ run' = 1
    /\ pc' = "org_get"
    /\ o' = OrgFresh
    /\ w' = WsFresh
    /\ log' = <<>>
    /\ UNCHANGED <<use_teams, projects, initial, snap, main>>

\* The recovery scenario starts from the empty remote state or from a remote
\* state with at most the previous version's compute environments
InitRecovery ==
    /\ InitRun(0)
    /\ remote.computeEnvs \subseteq {e \in PriorEnvPool : e.id <= MaxPriorEnvs}
    /\ Cardinality(remote.members) <= 1

NextRecovery == Step \/ Rerun \/ Abort \/ Restore

SpecRecovery == InitRecovery /\ [][NextRecovery]_vars

----------------------------------------------------------------------------
(* Properties *)

\* The workspace of project number wi in remote state r
WsOf(r, wi) == CHOOSE x \in r.workspaces : x.name = get_valid_name(projects[wi].name)

HasWs(r, wi) == \E x \in r.workspaces : x.name = get_valid_name(projects[wi].name)

\* The project configures at least one user with a launching role
LaunchersConfigured(wi) ==
    \E g \in {"owners", "admins", "maintainers", "launchers"} : projects[wi].users[g] # <<>>

TeamMemberIds(r, team_id) == {tm[2] : tm \in {x \in r.teamMembers : x[1] = team_id}}

MemberIdsOf(r, users) ==
    {m.memberId : m \in {x \in r.members : \E k \in 1..Len(users) : users[k] = x.email}}

LogHas(op) == \E i \in 1..Len(log) : log[i].op = op

\* C1: a second complete run with the same configuration, after a complete run
\* that started from the empty remote state, leaves the remote resource sets
\* (organizations, members, teams, workspaces, participants, credentials,
\* compute environments) as the first run left them
C1_SecondRunAddsNothing ==
    (run >= 2 /\ pc = "done" /\ snap.outcome = "done" /\ initial = EmptyRemote)
        => remote = snap.remote

C1_Witness ==
    /\ run = 2 /\ pc = "done" /\ snap.outcome = "done" /\ initial = EmptyRemote
    /\ Cardinality(remote.computeEnvs) = 4
    /\ Cardinality(remote.participants) = 3
    /\ Cardinality(remote.members) = 2
    /\ use_teams

\* A step of the add-then-remove loop's removal part: when it ends the loop the
\* team holds exactly the tier's members; it removes none of them
TeamStepConverges ==
    pc \in {"team_members_get", "team_remove_delete"} =>
        /\ pc' # "team_remove_delete" =>
              TeamMemberIds(remote', o.team_id) = MemberIdsOf(remote', Tier(o).users)
        /\ (TeamMemberIds(remote, o.team_id) \cap MemberIdsOf(remote, Tier(o).users))
              \subseteq TeamMemberIds(remote', o.team_id)

\* C2: when the add-then-remove step of a tier's team ends, the members of the
\* team are exactly the members of the tier's identities, and no step of it
\* removes a member of one of the tier's identities from the team
C2_TeamConverges == [][TeamStepConverges]_vars

\* A team that started with a member outside the tier ends with the two
\* identities of the tier after a removal
C2_Witness ==
    /\ use_teams /\ run = 1 /\ pc = "ws_get"
    /\ TeamMemberIds(initial, 1) = {MemberIdOf("u3")}
    /\ LogHas("team_remove_delete")
    /\ Cardinality(TeamMemberIds(remote, 1)) = 2

\* C3: a complete run after an aborted run ends in the remote state (primary
\* compute environments included) in which an uninterrupted run from the same
\* initial remote state ends
C3_RecoveryConverges ==
    (run = 2 /\ pc = "done" /\ snap.outcome = "aborted" /\ ref.set)
        => remote = ref.remote

\* The add_participant calls of the current workspace that have returned
ReturnedCalls ==
    IF pc = "participant_put" THEN w.qi - 1
    ELSE IF pc = "ce_cleanup_get" THEN Len(w.plist) ELSE 0

\* The participant records workspace ws_id holds for the user or team of `call`
RecordsOf(r, ws_id, call) ==
    {q \in r.participants :
        /\ q.wsId = ws_id
        /\ IF call.user # NoneString
           THEN \E m \in r.members : m.email = call.user /\ q.memberId = m.memberId
           ELSE q.teamId = call.team_id}

\* C4: when add_participant has returned, the workspace holds exactly one
\* participant record for the user or team of the call, and its role is the
\* role of this call: of the second call when the user or team was added before
C4_RoleOfLastCall ==
    ReturnedCalls > 0 =>
        LET call == w.plist[ReturnedCalls]
        IN  /\ Cardinality(RecordsOf(remote, w.id, call)) = 1
            /\ \A q \in RecordsOf(remote, w.id, call) : q.role = call.role

\* The second call for one user, with another role than the first, has returned
C4_Witness ==
    /\ ReturnedCalls = 2
    /\ w.plist[1].user = w.plist[2].user
    /\ w.plist[1].user # NoneString
    /\ w.plist[1].role # w.plist[2].role
    /\ \E q \in remote.participants : q.wsId = w.id /\ q.role = w.plist[2].role

\* The remote state the current run started from
Before == IF run >= 2 THEN snap.remote ELSE initial

\* The add_participant calls the configuration asks for in workspace wi
ConfiguredCalls(wi) == ParticipantCalls(WsUsers(wi), WsTeams(o, wi))

\* The participant records of workspace wi that answer none of the configured calls
StaleParticipants(r, wi) ==
    {q \in r.participants :
        /\ q.wsId = WsOf(r, wi).id
        /\ \A k \in 1..Len(ConfiguredCalls(wi)) :
              q \notin RecordsOf(r, q.wsId, ConfiguredCalls(wi)[k])}

\* C5: after a complete run every configured (user or team, role) pair is a
\* participant of the project's workspace with that role, and no participant
\* the workspace had before the run for a user or team that is not configured
\* is a participant afterwards
C5_ParticipantsExact ==
    pc = "done" =>
        \A wi \in 1..Len(projects) :
            /\ \A k \in 1..Len(ConfiguredCalls(wi)) :
                  \E q \in RecordsOf(remote, WsOf(remote, wi).id, ConfiguredCalls(wi)[k]) :
                      q.role = ConfiguredCalls(wi)[k].role
            /\ StaleParticipants(remote, wi) \cap Before.participants = {}

\* C6: in team mode, after a complete run, the team of every (project, user
\* group) pair holds exactly the members of the group's identities, also when
\* the group is empty in the configuration and the team held members before
C6_TeamsExact ==
    (pc = "done" /\ use_teams) =>
        \A wi \in 1..Len(projects) : \A g \in 1..Len(role_mapping) :
            \A t \in remote.teams :
                t.name = TeamName(projects[wi].name, role_mapping[g].user_group) =>
                    TeamMemberIds(remote, t.teamId) =
                        MemberIdsOf(remote, projects[wi].users[role_mapping[g].user_group])

\* The positions in the log of the requests `op` of workspace wi
CeLogOf(wi, op) == {i \in 1..Len(log) : log[i].op = op /\ log[i].wi = wi}

\* No DELETE of a compute environment of workspace wi was answered with
\* "has active jobs" in this run
NoDeleteBlocked(wi) == \A i \in CeLogOf(wi, "ce_delete") : ~log[i].blocked

\* The compute environments of project wi's workspace in remote state r
EnvsOf(r, wi) ==
    IF HasWs(r, wi) THEN {e \in r.computeEnvs : e.wsId = WsOf(r, wi).id} ELSE {}

EnvsNamed(r, wi, model) ==
    {e \in EnvsOf(r, wi) : e.name = comp_env_name(projects[wi].name, model)}

\* C7 as stated: after a complete run in which no deletion was blocked, every
\* workspace with a launching role holds exactly one compute environment with
\* the current spot name and exactly one with the current on-demand name,
\* whatever it held before, failed environments included
C7_OneOfEachName ==
    pc = "done" =>
        \A wi \in 1..Len(projects) :
            (LaunchersConfigured(wi) /\ NoDeleteBlocked(wi)) =>
                /\ Cardinality(EnvsNamed(remote, wi, "SPOT")) = 1
                /\ Cardinality(EnvsNamed(remote, wi, "EC2")) = 1

\* The live environments (aws-batch, AVAILABLE or CREATING) of project wi's
\* workspace in remote state r that have the current name of `model`
LiveNamed(r, wi, model) == {e \in EnvsNamed(r, wi, model) : IsLive(e)}

\* C7: after a complete run in which no deletion was blocked, every workspace
\* with a launching role holds, under the current spot name and under the
\* current on-demand name, exactly one live compute environment when it held
\* none before the run, and otherwise the live ones it held; environments
\* whose name does not end with the version marker are gone, and an
\* environment of the current version that is not live stays
C7_OneLiveOfEachName ==
    pc = "done" =>
        \A wi \in 1..Len(projects) :
            (LaunchersConfigured(wi) /\ NoDeleteBlocked(wi)) =>
                /\ \A m \in {"SPOT", "EC2"} :
                      IF LiveNamed(Before, wi, m) = {}
                      THEN Cardinality(LiveNamed(remote, wi, m)) = 1
                      ELSE LiveNamed(remote, wi, m) = LiveNamed(Before, wi, m)
                /\ \A e \in EnvsOf(remote, wi) : EndsWith(e.name, CE_VERSION)
                /\ \A e \in EnvsOf(Before, wi) :
                      (EndsWith(e.name, CE_VERSION) /\ ~IsLive(e)) => e \in remote.computeEnvs

\* A run that found a failed environment of the current version and one of the
\* previous version has ended with the two live environments beside the failed one
C7_Witness ==
    /\ pc = "done" /\ run = 1
    /\ LaunchersConfigured(1) /\ NoDeleteBlocked(1)
    /\ \E e \in initial.computeEnvs : e.status = "ERRORED"
    /\ \E e \in initial.computeEnvs : ~EndsWith(e.name, CE_VERSION)
    /\ Cardinality({e \in EnvsOf(remote, 1) : IsLive(e)}) = 2
    /\ Cardinality(EnvsOf(remote, 1)) = 3

\* The workspace of project 1 has a launching role, and its compute
\* environments before the run are the spot and the on-demand environment of
\* the previous version, without active jobs
RotationCase ==
    /\ LaunchersConfigured(1)
    /\ EnvsOf(Before, 1) =
          {e \in PriorEnvPool :
              e.name \in {CompEnvName(projects[1].name, Spot, <<"v", "5">>),
                          CompEnvName(projects[1].name, OnDemand, <<"v", "5">>)}}
    /\ Cardinality(EnvsOf(Before, 1)) = 2

\* C8: version rotation. In the rotation case every create is issued after the
\* deletes of both previous-version environments; and the complete run has
\* deleted both, created the current spot and on-demand environments, and
\* marked the new spot environment primary
C8_VersionRotation ==
    RotationCase =>
        LET deletes == CeLogOf(1, "ce_delete")
            creates == CeLogOf(1, "ce_post")
            primaries == CeLogOf(1, "ce_primary")
            old == {e.id : e \in EnvsOf(Before, 1)}
        IN  /\ \A j \in creates : {log[i].id : i \in {d \in deletes : d < j}} = old
            /\ \A i \in deletes : ~log[i].blocked
            /\ pc = "done" =>
                  /\ {log[i].id : i \in deletes} = old
                  /\ Cardinality(creates) = 2
                  /\ {log[j].name : j \in creates} =
                        {comp_env_name(projects[1].name, "SPOT"),
                         comp_env_name(projects[1].name, "EC2")}
                  /\ EnvsOf(remote, 1) =
                        {e \in remote.computeEnvs : e.id \in {log[j].id : j \in creates}}
                  /\ \E j \in creates :
                        /\ log[j].name = comp_env_name(projects[1].name, "SPOT")
                        /\ {log[k].id : k \in primaries} = {log[j].id}
                        /\ \A k \in primaries : k > j
                        /\ WsOf(remote, 1).primary = log[j].id

\* The rotation has completed with a primary compute environment
C8_Witness ==
    /\ pc = "done" /\ RotationCase
    /\ CeLogOf(1, "ce_primary") # {}
    /\ WsOf(remote, 1).primary # None
    /\ \A e \in EnvsOf(remote, 1) : EndsWith(e.name, CE_VERSION)

\* The listing cleanup_compute_environments got for workspace wi in this run
CleanupListing(wi) ==
    log[CHOOSE g \in CeLogOf(wi, "ce_cleanup_get") : TRUE].listed

\* Whether the listed environment e of workspace wi is one the claim says is
\* deleted: its name does not end with the version marker, or no launching
\* role is configured
ToDelete(wi, e) == ~EndsWith(e.name, CE_VERSION) \/ ~LaunchersConfigured(wi)

\* cleanup_compute_environments of workspace wi is under way
InCleanup(wi) == pc = "ce_delete" /\ w.wi = wi

\* C9: every DELETE of cleanup_compute_environments is for a listed environment
\* whose name does not end with the version marker or whose workspace has no
\* launchers; it is issued at most once per listed environment; and when the
\* cleanup has returned, exactly once for each such environment
C9_DeleteIffStale ==
    \A wi \in 1..Len(projects) :
        /\ CeLogOf(wi, "ce_delete") # {} => CeLogOf(wi, "ce_cleanup_get") # {}
        /\ CeLogOf(wi, "ce_cleanup_get") # {} =>
              LET listed == CleanupListing(wi)
                  DeletesOf(id) == {i \in CeLogOf(wi, "ce_delete") : log[i].id = id}
              IN  /\ \A i \in CeLogOf(wi, "ce_delete") :
                        \E k \in 1..Len(listed) :
                            listed[k].id = log[i].id /\ ToDelete(wi, listed[k])
                  /\ \A k \in 1..Len(listed) :
                        /\ Cardinality(DeletesOf(listed[k].id)) <= 1
                        /\ ~ToDelete(wi, listed[k]) => DeletesOf(listed[k].id) = {}
                        /\ (ToDelete(wi, listed[k]) /\ ~InCleanup(wi)) =>
                              Cardinality(DeletesOf(listed[k].id)) = 1

\* A cleanup has returned that listed an environment of the current version and
\* one of another version in a workspace with launchers, and deleted the latter
C9_Witness ==
    /\ pc = "ce_list_get" /\ w.wi = 1
    /\ CeLogOf(1, "ce_cleanup_get") # {}
    /\ Len(CleanupListing(1)) = 2
    /\ \E k \in 1..2 : ~ToDelete(1, CleanupListing(1)[k])
    /\ Cardinality(CeLogOf(1, "ce_delete")) = 1

\* The listed environments after the one with identifier id that are to be deleted
RestAfter(wi, id) ==
    LET listed == CleanupListing(wi)
        pos == CHOOSE k \in 1..Len(listed) : listed[k].id = id
    IN  SelectSeq(SubSeq(listed, pos + 1, Len(listed)), LAMBDA e : ToDelete(wi, e))

\* C10: a DELETE answered with "has active jobs" leaves the environment in
\* place and is not repeated in the run; right after it the run is in no
\* fault: it is at the DELETE of the next listed environment that is to be
\* deleted or, after the last one, at the provisioning step of the workspace
\* (the listing of create_compute_environment when there are launchers)
C10_BlockedDeleteSkipped ==
    \A i \in 1..Len(log) :
        (log[i].op = "ce_delete" /\ log[i].blocked) =>
            /\ \E e \in remote.computeEnvs : e.id = log[i].id
            /\ \A j \in CeLogOf(log[i].wi, "ce_delete") : j # i => log[j].id # log[i].id
            /\ i = Len(log) =>
                  /\ pc \notin Faults
                  /\ IF RestAfter(log[i].wi, log[i].id) # <<>>
                     THEN /\ InCleanup(log[i].wi)
                          /\ Head(w.pending) = Head(RestAfter(log[i].wi, log[i].id))
                     ELSE IF LaunchersConfigured(log[i].wi)
                          THEN pc = "ce_list_get" /\ w.wi = log[i].wi
                          ELSE pc \in {"ws_get", "done"} /\ w.wi = log[i].wi + 1

\* A run has ended that created a compute environment after a blocked DELETE
C10_Witness ==
    /\ pc = "done"
    /\ \E i \in CeLogOf(1, "ce_delete") :
          /\ log[i].blocked
          /\ \E j \in CeLogOf(1, "ce_post") : j > i
          /\ \E e \in remote.computeEnvs : e.id = log[i].id /\ e.activeJobs

----------------------------------------------------------------------------
(* has_launchers on its own: a workspace object is given the users (direct    *)
(* mode) or the teams (team mode) of one project, has_launchers is called, a  *)
(* launchers entry is added to the assignment, and it is called again.        *)

\* The role assignments Users(...) can be built with
UsersMenu ==
    [owners : {<<>>, <<"u1">>}, admins : {<<>>, <<"u1">>},
     maintainers : {<<>>, <<"u1">>}, launchers : {<<>>, <<"u1">>},
     viewers : {<<>>, <<"u2">>, <<"u2", "u3">>}]

\* teamids_per_project[name] as populate fills it for `users`: one team per
\* listed group, with the identifiers a fresh organization gives
TeamsOf(users) ==
    [t \in 1..Len(list_teams(users)) |-> <<t, list_teams(users)[t].role>>]

InitLaunchers ==
    /\ use_teams \in BOOLEAN
    /\ \E u \in UsersMenu : projects = <<[name |-> P_A, users |-> u]>>
    /\ remote = EmptyRemote
    /\ nextId = FreshIds
    /\ pc = "has_launchers"
    /\ run = 1
    /\ o = [OrgFresh EXCEPT !.teamids_per_project = <<TeamsOf(projects[1].users)>>]
    /\ w = [WsFresh EXCEPT !.wi = 1]
    /\ log = <<>>
    /\ initial = remote
    /\ snap = [outcome |-> "none", remote |-> remote]
    /\ ref = [set |-> FALSE, remote |-> remote]
    /\ main = MainReady

\* TowerWorkspace.has_launchers is called; the assignment and the result are logged
HasLaunchersCall ==
    /\ pc = "has_launchers"
    /\ log' = Append(log, [op |-> "has_launchers", users |-> projects[1].users,
                           result |-> WsHasLaunchers(o, w)])
    /\ pc' = "returned"
    /\ UNCHANGED <<use_teams, projects, remote, nextId, run, o, w, initial, snap, ref, main>>

\* One launchers entry is added to the assignment of the workspace
AddLauncherEntry ==
    /\ pc = "returned"
    /\ Len(log) = 1
    /\ projects[1].users.launchers = <<>>
    /\ projects' = [projects EXCEPT ![1].users.launchers = <<"u3">>]
    /\ o' = [o EXCEPT !.teamids_per_project = <<TeamsOf(projects'[1].users)>>]
    /\ pc' = "has_launchers"
    /\ UNCHANGED <<use_teams, remote, nextId, run, w, log, initial, snap, ref, main>>

NextLaunchers == HasLaunchersCall \/ AddLauncherEntry

SpecLaunchers == InitLaunchers /\ [][NextLaunchers]_vars

\* The assignment has users in no other group than viewers
OnlyViewers(users) ==
    /\ users.viewers # <<>>
    /\ \A g \in {"owners", "admins", "maintainers", "launchers"} : users[g] = <<>>

\* C11: has_launchers returns true if and only if a group with one of the
\* roles owner, admin, maintain, launch has a user, in direct mode and in team
\* mode; it returns false for an assignment with only viewers, and true after
\* one launchers entry was added to it
C11_HasLaunchersIff ==
    \A i \in 1..Len(log) :
        log[i].op = "has_launchers" =>
            /\ log[i].result =
                  (\E g \in {"owners", "admins", "maintainers", "launchers"} :
                      log[i].users[g] # <<>>)
            /\ OnlyViewers(log[i].users) => ~log[i].result
            /\ (i = 2 /\ OnlyViewers(log[1].users)) => log[i].result

\* In team mode, has_launchers returned false for viewers only and true after a
\* launchers entry was added
C11_Witness ==
    /\ use_teams
    /\ Len(log) = 2
    /\ OnlyViewers(log[1].users)
    /\ ~log[1].result
    /\ log[2].result
    /\ log[2].users.launchers # <<>>

\* C12: for a workspace without a launching role the run issues no request of
\* create_compute_environment (no listing, no credentials request, no create,
\* no set-primary), and its cleanup requests the deletion of every compute
\* environment the workspace holds, those of the current version included;
\* the ones without active jobs are gone afterwards
C12_ViewersGetNoCompEnv ==
    \A wi \in 1..Len(projects) :
        ~LaunchersConfigured(wi) =>
            /\ \A op \in {"ce_list_get", "credentials_get", "credentials_post",
                          "ce_post", "ce_primary"} : CeLogOf(wi, op) = {}
            /\ (CeLogOf(wi, "ce_cleanup_get") # {} /\ ~InCleanup(wi)) =>
                  /\ {log[i].id : i \in CeLogOf(wi, "ce_delete")} =
                        {e.id : e \in EnvsOf(Before, wi)}
                  /\ EnvsOf(remote, wi) = {e \in EnvsOf(Before, wi) : e.activeJobs}

\* A run has ended for a project with viewers only whose workspace held two
\* compute environments, one of the current version: both are gone
C12_Witness ==
    /\ pc = "done"
    /\ OnlyViewers(projects[1].users)
    /\ \E e \in EnvsOf(initial, 1) : EndsWith(e.name, CE_VERSION)
    /\ Cardinality(EnvsOf(Before, 1)) = 2
    /\ Cardinality(CeLogOf(1, "ce_delete")) = 2
    /\ EnvsOf(remote, 1) = {}

\* C13: a set-primary request directly follows the POST that creates the spot
\* environment and carries the identifier of that new environment; every
\* creation of a spot environment is followed by it, before the on-demand
\* environment is created; there is none for an on-demand environment or for
\* an environment that existed before the call
C13_PrimaryOnlyNewSpot ==
    \A wi \in 1..Len(projects) :
        LET creates == CeLogOf(wi, "ce_post")
            primaries == CeLogOf(wi, "ce_primary")
            spot == comp_env_name(projects[wi].name, "SPOT")
        IN  /\ \A k \in primaries :
                  /\ k - 1 \in creates
                  /\ log[k - 1].name = spot
                  /\ log[k - 1].id = log[k].id
                  /\ log[k].id \notin {e.id : e \in Before.computeEnvs}
            /\ \A j \in creates :
                  IF log[j].name = spot
                  THEN IF j = Len(log) THEN pc = "ce_primary" /\ w.wi = wi
                       ELSE j + 1 \in primaries
                  ELSE /\ j + 1 \notin primaries
                       /\ \A k \in primaries : k < j /\ log[k].id # log[j].id
            /\ (creates = {} \/ \A j \in creates : log[j].name # spot) => primaries = {}

\* A run has ended that created both environments and made the spot one primary
C13_Witness ==
    /\ pc = "done"
    /\ Cardinality(CeLogOf(1, "ce_post")) = 2
    /\ Cardinality(CeLogOf(1, "ce_primary")) = 1
    /\ \E j \in CeLogOf(1, "ce_post") :
          /\ log[j].name = comp_env_name(projects[1].name, "SPOT")
          /\ WsOf(remote, 1).primary = log[j].id

\* The member records the organization holds for an identity
MembersFor(r, user) == {m \in r.members : m.email = user}

\* A step of add_member. The PUT either adds a member record that did not
\* exist, or, for an identity that is a member, leads to the search for the
\* user name the answer quotes; a call that returns puts the returned record
\* in the member cache under the identity: the new record, or the existing
\* record with the quoted user name; the identity has one record afterwards
AddMemberStep ==
    pc \in {"member_put", "member_search"} =>
        LET user == Tier(o).users[o.ui]
        IN  /\ (pc = "member_put" /\ MembersFor(remote, user) # {}) =>
                  /\ pc' = "member_search"
                  /\ remote' = remote
                  /\ \E m \in MembersFor(remote, user) : o'.username = m.userName
            /\ (pc = "member_put" /\ MembersFor(remote, user) = {}) =>
                  /\ pc' \notin Faults \cup {"member_search"}
                  /\ remote'.members \ remote.members = {o'.members[user]}
            /\ pc' \notin Faults \cup {"member_search"} =>
                  /\ user \in DOMAIN o'.members
                  /\ MembersFor(remote', user) = {o'.members[user]}
                  /\ pc = "member_search" =>
                        /\ remote' = remote
                        /\ o'.members[user].userName = o.username

\* C14: add_member is a get-or-create: a successful add returns the new member
\* record; on "already a member" the existing member whose user name is the
\* one the message quotes is returned; in both cases the identity has exactly
\* one member record afterwards and the member cache maps it to that record
C14_AddMemberGetOrCreate == [][AddMemberStep]_vars

\* In one run a member was created for one identity and an existing member
\* was found for another; both are in the member cache
C14_Witness ==
    /\ LogHas("member_search")
    /\ \E u \in DOMAIN o.members : o.members[u] \in initial.members
    /\ \E u \in DOMAIN o.members : o.members[u] \notin initial.members
    /\ run = 1

----------------------------------------------------------------------------
(* Runs against a control plane that is not consistent: a listing leaves out *)
(* a member or a participant that exists, or the credentials entry of the    *)
(* stack is not a usable AWS entry.                                          *)

\* The credentials entries workspace 1 may hold under the name of the stack
CredentialsMenu ==
    {[wsId |-> 1, id |-> 1, name |-> P_A, provider |-> prov, deleted |-> del] :
        prov \in {"aws", "google"}, del \in {None, 1}}

FaultyRemotes(teamMode) ==
    { [PriorRemote(teamMode, envs, people) EXCEPT !.unlisted = hide, !.credentials = creds] :
        envs \in {{}, {e \in PriorEnvPool : e.id = 1}},
        people \in {{"u1"}, {"u1", "u2", "u3"}},
        hide \in {{}, {<<"member", 1>>}, {<<"member", 2>>}, {<<"participant", 1>>}},
        creds \in {{}} \cup {{c} : c \in CredentialsMenu} }

InitFaults ==
    /\ use_teams \in BOOLEAN
    /\ projects \in Configs
    /\ \/ remote = EmptyRemote /\ nextId = FreshIds
       \/ remote \in FaultyRemotes(use_teams) /\ nextId = PriorIds
    /\ pc = "org_get"
    /\ run = 1
    /\ o = OrgFresh
    /\ w = WsFresh
    /\ log = <<>>
    /\ initial = remote
    /\ snap = [outcome |-> "none", remote |-> remote]
    /\ ref = [set |-> FALSE, remote |-> remote]
    /\ main = MainReady

SpecFaults == InitFaults /\ [][Next]_vars

\* The last request of the run
LastOp == IF log = <<>> THEN "" ELSE log[Len(log)].op

\* The last request is a member search that returned no member with the user
\* name searched for
Unresolved ==
    /\ LastOp = "member_search"
    /\ ~\E m \in remote.members :
            /\ m.userName = log[Len(log)].username
            /\ <<"member", m.memberId>> \notin remote.unlisted

\* The run has ended in the fault of add_member's assert
MemberFault == pc = "AssertionError" /\ LastOp = "member_search"

\* An unresolved search is the fault of add_member, and only that; then the
\* identity has no cache entry, and the last requests are the one PUT for the
\* identity and the one search
MemberFaultState ==
    /\ Unresolved <=> MemberFault
    /\ MemberFault =>
          LET user == Tier(o).users[o.ui]
          IN  /\ user \notin DOMAIN o.members
              /\ Len(log) >= 2
              /\ log[Len(log) - 1] = [op |-> "member_put", user |-> user]
              /\ Cardinality({i \in 1..Len(log) :
                                log[i].op = "member_put" /\ log[i].user = user}) = 1

\* A step from the fault of add_member is the start of another run: nothing is
\* requested any more in this run and the remote state is left as it is
MemberFaultStep == MemberFault => (run' = run + 1 /\ log' = <<>> /\ remote' = remote)

\* C15: when the control plane reports "already a member" and the search
\* returns no member with the quoted user name, add_member raises: the identity
\* has no entry in the member cache, the PUT is not repeated, and the run
\* issues no further request
C15_UnresolvedMemberIsFatal == []MemberFaultState /\ [][MemberFaultStep]_vars

\* The search for the second identity of a project came back empty, after the
\* first identity was resolved
C15_Witness ==
    /\ MemberFault
    /\ DOMAIN o.members # {}
    /\ \E m \in remote.members : m.userName = log[Len(log)].username

\* The identities of all tiers of all projects
ReferencedIdentities ==
    {projects[i].users[role_mapping[g].user_group][k] :
        <<i, g, k>> \in {x \in (1..Len(projects)) \X (1..Len(role_mapping)) \X (1..2) :
                            x[3] <= Len(projects[x[1]].users[role_mapping[x[2]].user_group])}}

\* The run is at or after its first workspace operation
InWorkspaces == w.wi >= 1

\* Every referenced identity is a member and has its member record in the cache
AllResolved ==
    \A user \in ReferencedIdentities :
        /\ user \in DOMAIN o.members
        /\ o.members[user] \in remote.members
        /\ o.members[user].email = user

\* From the first workspace operation on every referenced identity is
\* resolved, and add_participant for a user finds the user in the cache
MembersResolved ==
    InWorkspaces =>
        /\ AllResolved
        /\ pc # "KeyError"
        /\ \A k \in 1..Len(w.plist) :
              w.plist[k].user # NoneString => w.plist[k].user \in DOMAIN o.members

\* No step of a run takes an entry out of the member cache
CacheKept ==
    run' = run =>
        \A user \in DOMAIN o.members :
            user \in DOMAIN o'.members

\* C16: before the first workspace operation of a run every identity of every
\* tier of every project is an organization member with its record in the
\* member cache, so add_participant never meets an identity that is not in
\* the cache; and no entry leaves the cache during the run
C16_MembersResolvedFirst == []MembersResolved /\ [][CacheKept]_vars

\* The second workspace is being populated with both identities resolved
C16_Witness ==
    /\ pc = "participant_put" /\ w.wi = 2
    /\ Cardinality(ReferencedIdentities) = 2
    /\ AllResolved
    /\ w.plist[w.qi].user \in DOMAIN o.members

----------------------------------------------------------------------------
(* paged_request on its own, against a control plane that holds the items     *)
(* 1..N in this order and answers a request with the total N and a page of    *)
(* the items that follow the offset: at most PageMax of them, and at least    *)
(* one when there is one.  The run state w holds the generator's variables.   *)

\* params["max"]
PageMax == 50

MaxItems == 53

\* MoreToFetch, were the loop left after the first page that has items
MoreToFetch_FirstPage(num_items, total_size) == num_items = 0 /\ num_items < total_size

\* The condition of paged_request's while-loop
MoreToFetch(num_items, total_size) == num_items < total_size

InitPaged ==
    /\ use_teams = FALSE
    /\ projects = <<>>
    /\ remote = EmptyRemote
    /\ nextId = FreshIds
    /\ run = 1
    /\ o = OrgFresh
    /\ \E n \in 0..MaxItems :
          w = [N |-> n, num_items |-> 0, total_size |-> 1, yielded |-> <<>>,
               requests |-> 0, offset |-> None]
    /\ pc = IF MoreToFetch(w.num_items, w.total_size) THEN "paged_get" ELSE "paged_end"
    /\ log = <<>>
    /\ initial = remote
    /\ snap = [outcome |-> "none", remote |-> remote]
    /\ ref = [set |-> FALSE, remote |-> remote]
    /\ main = MainReady

\* paged_request: one request with the offset num_items, and the loop over the
\* items of the answer, each of which is counted and yielded
PagedRequestGet ==
    /\ pc = "paged_get"
    /\ LET offset == w.num_items
           rest == IF w.N > offset THEN w.N - offset ELSE 0
           most == IF rest < PageMax THEN rest ELSE PageMax
       IN  \E size \in (IF most = 0 THEN {0} ELSE 1..most) :
              LET items == [k \in 1..size |-> offset + k]
                  num_items == w.num_items + Len(items)
              IN  /\ w' = [w EXCEPT !.offset = offset, !.requests = @ + 1,
                                    !.total_size = w.N, !.num_items = num_items,
                                    !.yielded = @ \o items]
                  /\ pc' = IF MoreToFetch(num_items, w.N) THEN "paged_get" ELSE "paged_end"
    /\ UNCHANGED <<use_teams, projects, remote, nextId, run, o, log, initial, snap, ref, main>>

NextPaged == PagedRequestGet

SpecPaged == InitPaged /\ [][NextPaged]_vars

\* The items yielded are the first items of the control plane, each once and in
\* its order; a request is pending only while fewer than N items were yielded
\* (or none was sent yet); at the end all N were yielded, with one request
\* when N is 0
PagedState ==
    /\ w.yielded = [k \in 1..Len(w.yielded) |-> k]
    /\ Len(w.yielded) <= w.N
    /\ pc = "paged_get" => (w.requests = 0 \/ Len(w.yielded) < w.N)
    /\ pc = "paged_end" =>
          /\ Len(w.yielded) = w.N
          /\ w.requests >= 1
          /\ w.N = 0 => w.requests = 1

\* Every request carries the number of the items yielded so far as its offset
PagedStep ==
    pc = "paged_get" =>
        /\ w'.offset = Len(w.yielded)
        /\ w'.requests = w.requests + 1

\* C17: paged_request yields exactly the N items of the control plane, each
\* once and in its order; every request has as offset the number of items
\* yielded so far; no request is sent once N items were yielded; and for
\* N = 0 there is exactly one request and nothing is yielded
C17_PagedRequestYieldsAll == []PagedState /\ [][PagedStep]_vars

\* More items than a page holds were yielded, in more than one request
C17_Witness ==
    /\ pc = "paged_end"
    /\ w.N > PageMax
    /\ Len(w.yielded) = w.N
    /\ w.requests >= 2
    /\ w.offset > 0

----------------------------------------------------------------------------
(* Runs for configurations of two projects whose names are distinct, with and *)
(* without characters that get_valid_name replaces.                           *)

\* A stack name with a character outside [A-Za-z0-9_-]
P_DOT == <<"a", ".", "p", "r", "o", "j", "e", "c", "t">>

NameConfigs ==
    { << [name |-> P_A, users |-> MkUsers(<<"u1">>, <<>>)],
         [name |-> P_DOT, users |-> MkUsers(<<"u2">>, <<>>)] >>,
      << [name |-> P_A, users |-> MkUsers(<<"u1">>, <<"u2">>)],
         [name |-> P_DOT, users |-> MkUsers(<<>>, <<"u1">>)] >>,
      << [name |-> P_A, users |-> MkUsers(<<"u1">>, <<>>)],
         [name |-> P_B, users |-> MkUsers(<<"u2">>, <<>>)] >> }

InitNames ==
    /\ use_teams \in BOOLEAN
    /\ projects \in NameConfigs
    /\ remote = EmptyRemote
    /\ nextId = FreshIds
    /\ pc = "org_get"
    /\ run = 1
    /\ o = OrgFresh
    /\ w = WsFresh
    /\ log = <<>>
    /\ initial = remote
    /\ snap = [outcome |-> "none", remote |-> remote]
    /\ ref = [set |-> FALSE, remote |-> remote]
    /\ main = MainReady

SpecNames == InitNames /\ [][Next]_vars

\* The identifiers of the workspaces the requests of TowerWorkspace.create
\* resolved project wi to in this run
ResolvedWs(wi) ==
    {log[i].id : i \in {k \in CeLogOf(wi, "ws_get") \cup CeLogOf(wi, "ws_post") :
                            log[k].id # None}}

\* C18: a workspace is created only when none with the project's sanitized
\* name exists (so no two workspaces have one name), every project resolves to
\* one workspace, and two projects with distinct names never resolve to the
\* same workspace
C18_OwnWorkspace ==
    /\ \A x, y \in remote.workspaces : x.name = y.name => x = y
    /\ \A i \in 1..Len(projects) : Cardinality(ResolvedWs(i)) <= 1
    /\ \A i, j \in 1..Len(projects) :
          (i # j /\ projects[i].name # projects[j].name) =>
              ResolvedWs(i) \cap ResolvedWs(j) = {}

\* The credentials entries of project wi's workspace with the name of the stack
StackCredentials(r, wi) ==
    {c \in r.credentials : c.wsId = WsOf(r, wi).id /\ c.name = projects[wi].name}

\* C19: when a run has created both compute environments of a workspace, it
\* created at most one credentials entry, before the first environment; the
\* lookup for the second environment found it; the workspace holds exactly one
\* credentials entry with the name of the stack, and both new environments
\* carry its identifier
C19_OneCredentialsRecord ==
    \A wi \in 1..Len(projects) :
        LET creates == CeLogOf(wi, "ce_post")
            lookups == CeLogOf(wi, "credentials_get")
            made == CeLogOf(wi, "credentials_post")
        IN  Cardinality(creates) = 2 =>
                /\ Cardinality(lookups) = 2
                /\ Cardinality(made) <= 1
                /\ \A c \in made : \A j \in creates : c < j
                /\ Cardinality(StackCredentials(remote, wi)) = 1
                /\ \A j \in creates : \E e \in EnvsOf(remote, wi) :
                      /\ e.id = log[j].id
                      /\ \E c \in StackCredentials(remote, wi) : e.credentialsId = c.id

\* A run from the empty remote state has created the credentials entry and
\* both compute environments of the first workspace
C19_Witness ==
    /\ initial = EmptyRemote /\ run = 1
    /\ Cardinality(CeLogOf(1, "ce_post")) = 2
    /\ Cardinality(CeLogOf(1, "credentials_post")) = 1
    /\ Cardinality(CeLogOf(1, "credentials_get")) = 2
    /\ Cardinality(StackCredentials(remote, 1)) = 1

\* The last request is a participant lookup that returned no participant with
\* the identifier looked for
ParticipantUnresolved ==
    /\ LastOp = "participant_lookup"
    /\ ~\E q \in remote.participants :
            /\ q.wsId = w.id
            /\ q.memberId = w.identifier \/ q.teamId = w.identifier
            /\ <<"participant", q.participantId>> \notin remote.unlisted

\* The last request is a credentials listing whose entry for the stack is not
\* an AWS entry or is deleted
CredentialsCheckFailed ==
    /\ LastOp = "credentials_get"
    /\ \E c \in remote.credentials :
          /\ c.wsId = w.id /\ c.name = projects[w.wi].name
          /\ c.provider # "aws" \/ c.deleted # None

\* The run is in a fault exactly when one of the three conditions was met by
\* its last request
FatalState ==
    (pc \in Faults) <=> (Unresolved \/ ParticipantUnresolved \/ CredentialsCheckFailed)

\* The request that meets the condition changes nothing in the remote state,
\* and the only step after a fault is the start of another run, from the
\* remote state as the run left it
FatalStep ==
    /\ (pc \notin Faults /\ pc' \in Faults) => (remote' = remote /\ run' = run)
    /\ pc \in Faults => (run' = run + 1 /\ log' = <<>> /\ remote' = remote)

\* C20: an unresolved "already a member", an unresolved "Already a
\* participant" and a failed credentials check end the run: no request follows
\* in the run, and what the run changed in the remote state before stays
C20_FatalErrorsAbortRun == []FatalState /\ [][FatalStep]_vars

\* The credentials check has failed after the run had deleted a compute
\* environment of the previous version
C20_Witness ==
    /\ pc = "AssertionError"
    /\ CredentialsCheckFailed
    /\ remote # initial
    /\ \E i \in 1..Len(log) : log[i].op = "ce_delete" /\ ~log[i].blocked
    /\ EnvsOf(remote, 1) = {}

----------------------------------------------------------------------------
(* Properties of main *)

\* Nothing was asked of the control plane and nothing changed there
NoRemoteAction ==
    /\ log = <<>>
    /\ remote = initial
    /\ nextId = (IF initial = EmptyRemote THEN FreshIds ELSE PriorIds)

\* C21: with the dry-run flag set main only loads the configuration: whatever
\* the directory holds, no TowerClient is built, no request (read or write) is
\* issued, the remote state stays what it was, and main ends with the report,
\* or with the error of the load
C21_DryRunTouchesNothing ==
    main.dry_run =>
        /\ main.tower = <<>>
        /\ NoRemoteAction
        /\ pc \in {"load", "dry_run", "InvalidTowerProject", "ValueError"}

\* A dry run over a directory with two well-formed projects has ended, in an
\* environment in which a TowerClient could be built, against a remote state
\* that a run without the flag would change
C21_Witness ==
    /\ main.dry_run
    /\ pc = "dry_run"
    /\ Len(projects) = 2
    /\ TowerClient(NoneString, NoneString, main.environ).raised = ""
    /\ remote = EmptyRemote
    /\ main.tower = <<>>

\* The environment of main sets neither of the two variables
Absent(first, second) ==
    main.environ[first] = NoneString /\ main.environ[second] = NoneString

\* The API URL is in neither variable of the environment: no client is built
\* and no request is issued
UrlRequired ==
    Absent("NXF_TOWER_API_URL", "TOWER_API_ENDPOINT") =>
        main.tower = <<>> /\ NoRemoteAction

\* The token is in neither variable of the environment: no client is built and
\* no request is issued
TokenRequired ==
    Absent("NXF_TOWER_TOKEN", "TOWER_ACCESS_TOKEN") =>
        main.tower = <<>> /\ NoRemoteAction

\* C22: a TowerClient is never built, and so never issues a request, when the
\* token or the API URL is absent from the arguments and from the environment
\* (main passes neither as an argument)
C22_ClientNeedsTokenAndUrl == TokenRequired /\ UrlRequired

\* A project record that validation refuses: no stack name, no template
\* marker or another one than the constant, no parameters, or neither of the
\* two access lists
InvalidRecord(config) ==
    \/ "stack_name" \notin DOMAIN config
    \/ "template_path" \notin DOMAIN config
    \/ "parameters" \notin DOMAIN config
    \/ /\ "template_path" \in DOMAIN config
       /\ config.template_path # "tower-project.yaml"
    \/ /\ "parameters" \in DOMAIN config
       /\ DOMAIN config.parameters \cap {"S3ReadWriteAccessArns", "S3ReadOnlyAccessArns"} = {}

\* The ARNs of the menu that name an account, a role and an email address
WellFormedArns == {ArnOf(u) : u \in Identities}

\* A record one of whose access lists holds a malformed ARN
HasMalformedArn(config) ==
    /\ "parameters" \in DOMAIN config
    /\ \E key \in DOMAIN config.parameters :
          \E i \in 1..Len(config.parameters[key]) :
              config.parameters[key][i] \notin WellFormedArns

\* The files of the directory that are invalid or hold a malformed ARN
BadFiles ==
    {k \in 1..Len(main.configs) :
        InvalidRecord(main.configs[k]) \/ HasMalformedArn(main.configs[k])}

\* C23: loading is all-or-nothing and comes before every remote action: when a
\* file of the directory is invalid or holds a malformed ARN, the load stops
\* at the first such file (with InvalidTowerProject for an invalid record,
\* ValueError for a malformed ARN), no later file is read, no mapping of
\* projects to users is produced, no client is built and no request is issued;
\* and a request is only issued after every file was loaded
C23_LoadAllOrNothing ==
    /\ BadFiles # {} =>
          /\ projects = <<>>
          /\ main.tower = <<>>
          /\ NoRemoteAction
          /\ pc \in {"load", "InvalidTowerProject", "ValueError"}
          /\ main.ci <= Min(BadFiles)
          /\ pc # "load" <=> main.ci = Min(BadFiles)
          /\ pc = "InvalidTowerProject" =>  InvalidRecord(main.configs[main.ci])
          /\ pc = "ValueError" =>
                ~InvalidRecord(main.configs[main.ci]) /\ HasMalformedArn(main.configs[main.ci])
    /\ BadFiles = {} => pc \notin {"InvalidTowerProject", "ValueError"}
    /\ log # <<>> =>
          /\ main.ci = Len(main.configs)
          /\ projects = main.users_per_project

\* A run without the dry-run flag, in an environment in which a client could
\* be built, stopped at the malformed ARN of the second file after the first
\* file was loaded
C23_Witness ==
    /\ ~main.dry_run
    /\ TowerClient(NoneString, NoneString, main.environ).raised = ""
    /\ pc = "ValueError"
    /\ main.ci = 2
    /\ Len(main.users_per_project) = 1
    /\ projects = <<>>
    /\ log = <<>>

----------------------------------------------------------------------------
(* Projects.extract_emails alone: it is called with a list of ARNs; the run  *)
(* state w holds the list and what the call returned.                        *)

\* A well-formed ARN with a longer account and role name
ARN_LONG == Arn(<<"1", "2">>, <<"R", "o", "l", "e">>, Email("u2"))

\* Three well-formed ARNs, and malformed ones: there is no session name; the
\* session name has no top-level domain, or one of one letter; there is no
\* account; something follows the email address
ArnMenu ==
    {ArnOf("u1"), ARN_LONG, ArnOf("u3"),
     ARN_NO_SESSION,
     Arn(<<"1">>, <<"r">>, <<"u", "1", "@", "s">>),
     Arn(<<"1">>, <<"r">>, <<"u", "1", "@", "s", ".", "i">>),
     Arn(<<>>, <<"r">>, Email("u1")),
     ArnOf("u1") \o <<"/", "x">>}

MaxArns == 3

InitEmails ==
    /\ use_teams = FALSE
    /\ projects = <<>>
    /\ remote = EmptyRemote
    /\ nextId = FreshIds
    /\ run = 1
    /\ o = OrgFresh
    /\ \E n \in 0..MaxArns : \E arns \in [1..n -> ArnMenu] :
          w = [arns |-> arns, emails |-> <<>>]
    /\ pc = "extract_emails"
    /\ log = <<>>
    /\ initial = remote
    /\ snap = [outcome |-> "none", remote |-> remote]
    /\ ref = [set |-> FALSE, remote |-> remote]
    /\ main = MainReady

\* Projects.extract_emails is called with the list; it returns or raises
ExtractEmailsCall ==
    /\ pc = "extract_emails"
    /\ LET result == extract_emails(w.arns)
       IN  /\ pc' = IF result.raised # "" THEN result.raised ELSE "returned"
           /\ w' = [w EXCEPT !.emails = result.emails]
    /\ UNCHANGED <<use_teams, projects, remote, nextId, run, o, log, initial, snap, ref, main>>

NextEmails == ExtractEmailsCall

SpecEmails == InitEmails /\ [][NextEmails]_vars

\* The email address of the ARNs of the menu that follow the grammar
\* arn:aws:sts::<account>:assumed-role/<role>/<email>
SessionEmail(arn) ==
    CASE arn = ArnOf("u1") -> <<"u", "1", "@", "s", ".", "i", "o">>
      [] arn = ARN_LONG -> <<"u", "2", "@", "s", ".", "i", "o">>
      [] arn = ArnOf("u3") -> <<"u", "3", "@", "s", ".", "i", "o">>

Conforming == {ArnOf("u1"), ARN_LONG, ArnOf("u3")}

\* C24: extract_emails is strict and keeps the order: when every ARN of the
\* list follows the grammar it returns the email of each ARN, in the order of
\* the list; when one does not, it raises ValueError and returns no email,
\* not even those of the well-formed ARNs in front of the malformed one
C24_ExtractEmailsStrict ==
    pc # "extract_emails" =>
        IF \A i \in 1..Len(w.arns) : w.arns[i] \in Conforming
        THEN /\ pc = "returned"
             /\ w.emails = [i \in 1..Len(w.arns) |-> SessionEmail(w.arns[i])]
        ELSE /\ pc = "ValueError"
             /\ w.emails = <<>>

\* The call raised for a list whose first two ARNs are well-formed, with
\* different emails, and whose third is malformed
C24_Witness ==
    /\ pc = "ValueError"
    /\ Len(w.arns) = 3
    /\ w.arns[1] \in Conforming
    /\ w.arns[2] \in Conforming
    /\ w.arns[1] # w.arns[2]
    /\ w.arns[3] \notin Conforming
    /\ w.emails = <<>>

----------------------------------------------------------------------------
(* TowerClient.get_valid_name alone: it is called with a name, and then with *)
(* its own result; the run state w holds the name and the two results.       *)

\* "My Project! #1"
MY_PROJECT ==
    <<"M", "y", " ", "P", "r", "o", "j", "e", "c", "t", "!", " ", "#", "1">>

MaxNameLen == 3

\* The names get_valid_name is called with: the one above, and the strings of
\* letters, a digit, the underscore, the dash and four characters outside
\* [A-Za-z0-9_-]
FullNames ==
    {MY_PROJECT} \cup
    UNION {[1..n -> {"a", "Z", "0", "_", "-", " ", ".", "!", "#"}] : n \in 0..MaxNameLen}

InitValidName ==
    /\ use_teams = FALSE
    /\ projects = <<>>
    /\ remote = EmptyRemote
    /\ nextId = FreshIds
    /\ run = 1
    /\ o = OrgFresh
    /\ \E full_name \in FullNames : w = [full_name |-> full_name, name |-> <<>>, again |-> <<>>]
    /\ pc = "get_valid_name"
    /\ log = <<>>
    /\ initial = remote
    /\ snap = [outcome |-> "none", remote |-> remote]
    /\ ref = [set |-> FALSE, remote |-> remote]
    /\ main = MainReady

\* get_valid_name(full_name)
GetValidNameCall ==
    /\ pc = "get_valid_name"
    /\ w' = [w EXCEPT !.name = get_valid_name(w.full_name)]
    /\ pc' = "returned"
    /\ UNCHANGED <<use_teams, projects, remote, nextId, run, o, log, initial, snap, ref, main>>

\* get_valid_name(name) for the name the first call returned
GetValidNameAgain ==
    /\ pc = "returned"
    /\ w' = [w EXCEPT !.again = get_valid_name(w.name)]
    /\ pc' = "returned_again"
    /\ UNCHANGED <<use_teams, projects, remote, nextId, run, o, log, initial, snap, ref, main>>

NextValidName == GetValidNameCall \/ GetValidNameAgain

SpecValidName == InitValidName /\ [][NextValidName]_vars

\* C25 as stated: get_valid_name("My Project! #1") is "My-Project--1"
C25_ExampleTwoDashes ==
    (pc # "get_valid_name" /\ w.full_name = MY_PROJECT) =>
        w.name = <<"M", "y", "-", "P", "r", "o", "j", "e", "c", "t", "-", "-", "1">>

\* C25: get_valid_name("My Project! #1") is "My-Project---1": the three
\* characters "! #" between "Project" and "1" give three dashes
C25_ExampleThreeDashes ==
    (pc # "get_valid_name" /\ w.full_name = MY_PROJECT) =>
        w.name = <<"M", "y", "-", "P", "r", "o", "j", "e", "c", "t", "-", "-", "-", "1">>

\* get_valid_name("My Project! #1") has returned
C25_Witness ==
    /\ pc = "returned"
    /\ w.full_name = MY_PROJECT
    /\ Len(w.name) = 14

\* [A-Za-z0-9_-]
KeptChars == Letters \cup Digits \cup {"_", "-"}

\* C26: get_valid_name replaces one character by one character: the result has
\* the length of the input, holds the input's character wherever that is in
\* [A-Za-z0-9_-] and a dash elsewhere, and is left as it is by a second call
C26_OneForOne ==
    /\ pc # "get_valid_name" =>
          /\ Len(w.name) = Len(w.full_name)
          /\ \A i \in 1..Len(w.full_name) :
                /\ w.full_name[i] \in KeptChars => w.name[i] = w.full_name[i]
                /\ w.full_name[i] \notin KeptChars => w.name[i] = "-"
    /\ pc = "returned_again" => w.again = w.name

\* A name with an underscore, a character that is replaced and a letter went
\* through both calls
C26_Witness ==
    /\ pc = "returned_again"
    /\ Len(w.full_name) = 3
    /\ "_" \in {w.full_name[i] : i \in 1..3}
    /\ \E i \in 1..3 : w.full_name[i] \notin KeptChars
    /\ \E i \in 1..3 : w.full_name[i] \in Letters
    /\ w.name # w.full_name
    /\ w.again = w.name

----------------------------------------------------------------------------
(* TowerWorkspace.add_participant called as a method: workspace 1 of project *)
(* P_A exists, member u1 is in the cache of the organization, and            *)
(* add_participant is called with any role, user and team_id, up to MaxCalls *)
(* times in a row.  The workspace may hold a participant of member 1, one of *)
(* team 1, or both, under either order of their participant identifiers.    *)

MaxCalls == 2

\* The arguments of add_participant: user is None, empty, a member of the
\* cache or another email; team_id is None, 0 or the identifier of a team
CallMenu ==
    [role : {"maintain", "view"},
     user : {NoneString, "", "u1", "u2"},
     team_id : {None, 0, 1}]

\* A participant of workspace 1, bound to a member or to a team
Participant(participantId, memberId, teamId) ==
    [wsId |-> 1, participantId |-> participantId, memberId |-> memberId, teamId |-> teamId,
     role |-> "launch"]

ParticipantRemotes ==
    { [PriorRemote(TRUE, {}, {"u1"}) EXCEPT !.participants = held, !.unlisted = hide] :
        held \in { {}, {Participant(1, 1, None)}, {Participant(1, None, 1)},
                   {Participant(1, 1, None), Participant(2, None, 1)},
                   {Participant(1, None, 1), Participant(2, 1, None)} },
        hide \in { {}, {<<"participant", 1>>} } }

InitParticipants ==
    /\ use_teams = FALSE
    /\ projects = <<[name |-> P_A, users |-> MkUsers(<<"u1">>, <<>>)]>>
    /\ remote \in ParticipantRemotes
    /\ nextId = PriorIds
    /\ pc = "participant_put"
    /\ run = 1
    /\ o = [OrgFresh EXCEPT !.id = 1, !.members = ("u1" :> MkMember("u1"))]
    /\ \E n \in 1..MaxCalls : \E calls \in [1..n -> CallMenu] :
          w = [WsFresh EXCEPT !.wi = 1, !.id = 1, !.name = get_valid_name(P_A),
                              !.plist = calls, !.qi = 1]
    /\ log = <<>>
    /\ initial = remote
    /\ snap = [outcome |-> "none", remote |-> remote]
    /\ ref = [set |-> FALSE, remote |-> remote]
    /\ main = MainReady

NextParticipants == AddParticipantPut \/ AddParticipantLookup \/ SetParticipantRolePut

SpecParticipants == InitParticipants /\ [][NextParticipants]_vars

\* The call add_participant is about to be entered with
CurrentCall == w.plist[w.qi]

\* The step is the entry of add_participant up to its PUT request or its raise
EntersAddParticipant == pc = "participant_put" /\ pc' # "participant_put"

\* add_participant went on to the request that adds the participant
ProceedsToAdd ==
    /\ pc' \in {"participant_lookup", "participant_role"}
    /\ Len(log') = Len(log) + 1
    /\ log'[Len(log')].op = "participant_put"

\* add_participant raised ValueError before any request, with the cache of
\* participants and the remote state as they were
RaisesValueError ==
    /\ pc' = "ValueError"
    /\ log' = log
    /\ remote' = remote
    /\ w'.participants = w.participants

ExactlyOneSupplied ==
    EntersAddParticipant =>
        LET user_given == CurrentCall.user # NoneString
            team_given == CurrentCall.team_id # None
        IN  IF user_given # team_given THEN ProceedsToAdd ELSE RaisesValueError

\* C27: add_participant raises ValueError, before any request and with the
\* cache of participants unchanged, when both or neither of user and team_id
\* are supplied, and goes on to the request that adds the participant when
\* exactly one is supplied, whatever its value
C27_ExactlyOneOfUserAndTeam == [][ExactlyOneSupplied]_vars

\* The participants of the workspace that a listing shows and that are bound
\* to the member (a call with a user) or to the team (a call with a team) of
\* the call add_participant is in
BoundToCall ==
    {q \in remote.participants :
        /\ q.wsId = w.id
        /\ <<"participant", q.participantId>> \notin remote.unlisted
        /\ IF Truthy(CurrentCall.user)
           THEN q.memberId = o.members[CurrentCall.user].memberId
           ELSE q.teamId = CurrentCall.team_id}

\* The lookup after "Already a participant" resolves a participant bound to the
\* member or team of the call, and faults when there is none
LookupResolvesOwnKind ==
    pc = "participant_lookup" =>
        IF BoundToCall # {}
        THEN /\ pc' = "participant_role"
             /\ w'.participant_id \in {q.participantId : q \in BoundToCall}
        ELSE pc' = "AssertionError"

\* The role update changes no participant but one bound to the member or team
\* of the call
RoleUpdateOnOwnKind ==
    pc = "participant_role" =>
        \A q \in remote.participants : q \notin remote'.participants => q \in BoundToCall

\* C30: on "Already a participant" add_participant resolves the participant of
\* the supplied member, or of the supplied team, never a participant of the
\* other kind whose identifier has the same value; the role update that
\* follows is made on that participant; and the call faults when no
\* participant matches
C30_LookupByKind == [][LookupResolvesOwnKind /\ RoleUpdateOnOwnKind]_vars

----------------------------------------------------------------------------
(* The order of the requests of a run *)

OrgOps == {"org_get", "org_post"}

MemberTeamOps ==
    {"member_put", "member_search", "team_get", "team_post", "team_add_post",
     "team_members_get", "team_remove_delete"}

\* The stage of a workspace a request belongs to: 1 the workspace is ensured,
\* 2 participants, 3 cleanup of compute environments, 4 their provisioning
StageOf(op) ==
    CASE op \in {"ws_get", "ws_post"} -> 1
      [] op \in {"participant_put", "participant_lookup", "participant_role"} -> 2
      [] op \in {"ce_cleanup_get", "ce_delete"} -> 3
      [] op \in {"ce_list_get", "credentials_get", "credentials_post", "ce_post",
                 "ce_primary"} -> 4

\* The place of a request in the order of the phases: the organization, the
\* members and teams, then workspace by workspace and stage by stage
PlaceOf(entry) ==
    IF entry.op \in OrgOps THEN 0
    ELSE IF entry.op \in MemberTeamOps THEN 1
    ELSE 10 * entry.wi + StageOf(entry.op)

\* The requests of the log that belong to a workspace
WorkspaceCalls == {i \in 1..Len(log) : log[i].op \notin OrgOps \cup MemberTeamOps}

RECURSIVE SumLen(_)
SumLen(ss) == IF ss = <<>> THEN 0 ELSE Len(Head(ss)) + SumLen(Tail(ss))

\* The number of users populate adds, over all projects and groups
UsersToAdd ==
    SumLen([i \in 1..Len(projects) |-> list_users(projects[i].users)])

\* The number of teams populate ensures, over all projects
TeamsToEnsure ==
    IF use_teams THEN SumLen([i \in 1..Len(projects) |-> list_teams(projects[i].users)])
    ELSE 0

CountOps(op) == Cardinality({i \in 1..Len(log) : log[i].op = op})

\* C28: the requests of a run come in phases that do not interleave: first the
\* organization; then the members and teams, of all projects, before the first
\* request of a workspace; then the workspaces in the order of the
\* configuration, each with its requests in the order workspace, participants,
\* cleanup of compute environments, provisioning of compute environments, and
\* all of them before the first request of the next workspace
C28_PhasesInOrder ==
    /\ log # <<>> => log[1].op = "org_get"
    /\ \A i \in 1..(Len(log) - 1) : PlaceOf(log[i]) <= PlaceOf(log[i + 1])
    /\ \A i \in WorkspaceCalls : log[i].wi \in 1..Len(projects)
    /\ WorkspaceCalls # {} =>
          /\ CountOps("member_put") >= UsersToAdd
          /\ CountOps("team_get") = TeamsToEnsure
          /\ log[Min(WorkspaceCalls)].op = "ws_get"
          /\ log[Min(WorkspaceCalls)].wi = 1
    /\ pc = "done" =>
          \A wi \in 1..Len(projects) :
              /\ CeLogOf(wi, "ws_get") # {}
              /\ CeLogOf(wi, "ce_cleanup_get") # {}

\* A run in team mode over two projects has ended; both workspaces went
\* through all four stages, after members and teams of both projects
C28_Witness ==
    /\ pc = "done"
    /\ run = 1
    /\ use_teams
    /\ Len(projects) = 2
    /\ LogHas("team_post")
    /\ LogHas("team_members_get")
    /\ \A wi \in 1..2 :
          /\ CeLogOf(wi, "participant_put") # {}
          /\ CeLogOf(wi, "ce_cleanup_get") # {}
          /\ CeLogOf(wi, "ce_post") # {}

----------------------------------------------------------------------------
(* Runs against workspaces that hold compute environments of the current     *)
(* version on another platform than AWS Batch, beside live and failed ones.  *)

\* Compute environments workspace 1 may hold before the first run
PlatformEnvPool ==
    { [wsId |-> 1, id |-> 1, name |-> CompEnvName(P_A, Spot, CE_VERSION),
       platform |-> "google-lifesciences", credentialsId |-> 1, status |-> "AVAILABLE",
       activeJobs |-> FALSE],
      [wsId |-> 1, id |-> 2, name |-> CompEnvName(P_A, Spot, CE_VERSION),
       platform |-> "aws-batch", credentialsId |-> 1, status |-> "AVAILABLE",
       activeJobs |-> FALSE],
      [wsId |-> 1, id |-> 3, name |-> CompEnvName(P_A, OnDemand, CE_VERSION),
       platform |-> "aws-batch", credentialsId |-> 1, status |-> "CREATING",
       activeJobs |-> FALSE],
      [wsId |-> 1, id |-> 4, name |-> CompEnvName(P_A, OnDemand, CE_VERSION),
       platform |-> "aws-batch", credentialsId |-> 1, status |-> "ERRORED",
       activeJobs |-> FALSE],
      [wsId |-> 1, id |-> 5, name |-> CompEnvName(P_A, Spot, <<"v", "5">>),
       platform |-> "aws-batch", credentialsId |-> 1, status |-> "AVAILABLE",
       activeJobs |-> FALSE] }

InitPlatforms ==
    /\ use_teams \in BOOLEAN
    /\ projects \in Configs
    /\ \/ remote = EmptyRemote /\ nextId = FreshIds
       \/ /\ \E envs \in {E \in SUBSET PlatformEnvPool : Cardinality(E) <= MaxPriorEnvs},
                people \in {{}, {"u1", "u2", "u3"}} :
                 remote = PriorRemote(use_teams, envs, people)
          /\ nextId = PriorIds
    /\ pc = "org_get"
    /\ run = 1
    /\ o = OrgFresh
    /\ w = WsFresh
    /\ log = <<>>
    /\ initial = remote
    /\ snap = [outcome |-> "none", remote |-> remote]
    /\ ref = [set |-> FALSE, remote |-> remote]
    /\ main = MainReady

SpecPlatforms == InitPlatforms /\ [][Next]_vars

\* The environments of a listing that are AWS Batch ones, available or being
\* created, and have the name
LiveListed(listed, name) ==
    {listed[i] : i \in {k \in 1..Len(listed) :
        /\ listed[k].platform = "aws-batch"
        /\ listed[k].status \in {"AVAILABLE", "CREATING"}
        /\ listed[k].name = name}}

\* The creations of an environment of the name for workspace wi, in the log
CreatesOf(wi, name) == {i \in CeLogOf(wi, "ce_post") : log[i].name = name}

\* The run is past create_compute_environment of workspace wi
Provisioned(wi) ==
    /\ CeLogOf(wi, "ce_list_get") # {}
    /\ \/ pc \in {"done", "ws_get", "ws_post"} /\ w.wi > wi
       \/ pc = "done"

\* The name create_compute_environment uses for the pricing model
NameFor(wi, model) ==
    projects[wi].name \o <<"-">> \o (IF model = "SPOT" THEN Spot ELSE OnDemand)
        \o <<"-">> \o CE_VERSION

\* C29: for each of the names {stack}-spot-{version} and
\* {stack}-ondemand-{version}, create_compute_environment takes the identifier
\* of an environment of the listing that has the name, is of platform
\* aws-batch and is AVAILABLE or CREATING, and issues no create for the name;
\* it issues one create when the listing has no such environment; and in the
\* end it has an identifier for both
C29_CreateIffNoneLive ==
    \A wi \in 1..Len(projects) : \A k \in CeLogOf(wi, "ce_list_get") :
        \A model \in {"SPOT", "EC2"} :
            LET live == LiveListed(log[k].listed, NameFor(wi, model))
                creates == CreatesOf(wi, NameFor(wi, model))
            IN  /\ log[k].ids[model] = None <=> live = {}
                /\ live # {} => log[k].ids[model] \in {e.id : e \in live}
                /\ creates # {} => live = {}
                /\ Cardinality(creates) <= 1
                /\ \A i \in creates : i > k /\ log[i].id # None
                /\ Provisioned(wi) => (creates = {} <=> live # {})

\* A run has ended in which the listing of workspace 1 held an environment
\* with the spot name on another platform and a live one with the on-demand
\* name: the spot environment was created, the on-demand one was reused
C29_Witness ==
    /\ pc = "done"
    /\ run = 1
    /\ \E k \in CeLogOf(1, "ce_list_get") :
          /\ \E i \in 1..Len(log[k].listed) :
                /\ log[k].listed[i].name = NameFor(1, "SPOT")
                /\ log[k].listed[i].platform # "aws-batch"
          /\ log[k].ids.SPOT = None
          /\ log[k].ids.EC2 = 3
    /\ CreatesOf(1, NameFor(1, "SPOT")) # {}
    /\ CreatesOf(1, NameFor(1, "EC2")) = {}

====
